---- MODULE Spec2Model ----
(***************************************************************************)
(* async-dnssd: the async adapter around the DNSService* C API.            *)
(*                                                                         *)
(* Spec        a shared native handle (Register/Registration or            *)
(*             Connection) with its mutex, its background driver, its      *)
(*             single-shot callback contexts and its records               *)
(*             (src/src/inner.rs, future.rs, service/register.rs,          *)
(*             service/connection.rs, service/records.rs).                 *)
(* SpecStream  a created ServiceStream: the daemon's replies, the callback *)
(*             bridge, the channel and the polls (src/src/stream.rs,       *)
(*             evented/mod.rs, service/browse.rs).                         *)
(* SpecSubmit  the construction functions browse_extended and              *)
(*             register_extended on all inputs (service/browse.rs,         *)
(*             service/register.rs, cstr.rs, error.rs, inner.rs,           *)
(*             fused_err_stream.rs).                                       *)
(* SpecFuture  one single-shot ServiceFuture of a registration over the    *)
(*             whole life of its handle (src/src/future.rs,                *)
(*             service/register.rs, inner.rs).                             *)
(* SpecNotify  the failure notifier of a shared handle and the tasks that   *)
(*             wait on it (src/src/inner.rs, src/src/notify.rs).           *)
(* SpecTimeout the idle-timeout combinator over an inner stream             *)
(*             (src/src/timeout_stream.rs).                                *)
(* SpecWindows the select-thread readiness adapter                          *)
(*             (src/src/evented/windows.rs).                               *)
(* SpecUnix    the poll()/reactor readiness adapter                         *)
(*             (src/src/evented/unix.rs).                                  *)
(* SpecRdata   the RDATA length check of the record operations              *)
(*             (src/src/inner.rs).                                         *)
(* SpecTxt     the TXT record container (src/src/txt_record.rs).            *)
(* SpecInterface the interface selectors (src/src/interface.rs,             *)
(*             src/src/interface_index.rs).                                *)
(* SpecFlags   the flag sets of the enumeration results                     *)
(*             (src/src/flags_macro.rs).                                   *)
(* SpecError   Error::from over the codes of the C API (src/src/error.rs).  *)
(* SpecResolveHost host address resolution                                  *)
(*             (src/src/service/resolve_host.rs).                          *)
(* SpecProcess driving the handle while its socket is readable             *)
(*             (src/src/evented/windows.rs, src/src/evented/mod.rs).       *)
(* SpecFd     the socket of the handle and the readiness source that       *)
(*             borrows it (src/src/inner.rs, src/src/evented/).            *)
(* SpecReader mdns_ipc read_struct over a stream                            *)
(*             (src/mdns_ipc/src/reader.rs, src/mdns_ipc_core/src/).       *)
(* SpecCodec  the zero-terminated strings of mdns_ipc                       *)
(*             (src/mdns_ipc_core/src/strings.rs).                         *)
(***************************************************************************)
EXTENDS Integers, Sequences, FiniteSets, TLC

\* number of record slots of the handle
MaxRecords == 2
\* number of replies the daemon sends to one stream
MaxCallbacks == 3
\* number of polls of a stream that return an item or an error
MaxPolls == 4
\* length of the string arguments of a construction function
MaxStrLen == 1
\* number of replies the daemon sends to one registration
MaxReplies == 2

\* number of tasks that poll futures depending on one shared handle
MaxObservers == 3
\* longest duration of a TimeoutStream, in ticks
MaxDuration == 2
\* number of ticks of the clock
MaxTime == 4
\* number of results of the inner stream
MaxItems == 2
\* number of messages the daemon writes to the socket
MaxArrivals == 3
\* number of calls into the unix readiness adapter
MaxCalls == 3
\* number of times in a row poll() is interrupted
MaxRetries == 2
\* number of record operations submitted
MaxSubmits == 2
\* 1 << 16, the first length that does not fit in u16
U16Limit == 65536
\* longest byte string handed to TxtRecord::parse
MaxWireLen == 2
\* longest entry of a TXT record
MaxEntryLen == 255
\* number of conversions of interface selectors
MaxConversions == 2
\* the special interface indices: 0, !0, !1, !2.  A u32 is written as the
\* i32 of the same bits, so all-ones is -1
INTERFACE_INDEX_ANY == 0
INTERFACE_INDEX_LOCAL_ONLY == -1
INTERFACE_INDEX_UNICAST == -2
INTERFACE_INDEX_P2P == -3
\* number of bits of the flag words converted
MaxFlagBits == 5
\* the DNSServiceFlags of the enumeration results
FLAGS_MORE_COMING == 1
FLAGS_ADD == 2
FLAGS_DEFAULT == 4
\* number of answers to the two queries of a host resolution
MaxAnswers == 2
\* Class::IN, Type::A, Type::AAAA
Class_IN == 1
Type_A == 1
Type_AAAA == 28
\* length of the fixed part, and of the string, of a struct that is read
MaxFieldLen == 2
\* number of characters of a string that is serialized
MaxChunks == 2
Rec == 1..MaxRecords
\* callback contexts: 0 is the context of the register callback, r > 0 the
\* context of the register-record callback of record r
Ctx == 0..MaxRecords

VARIABLES
    kind,           \* "register" (OwnedService::register(..).share()) or "connection"
    owner,          \* "Register" (pending future), "Registration", "Connection", "dropped"
    sd_ref,         \* ManagedService.0: "live" or "freed"
    deallocs,       \* number of DNSServiceRefDeallocate calls made
    holders,        \* live clones of Arc<Mutex<SharedInner>> (they keep ServiceHandle)
    bg_abort,       \* AbortHandle::drop has called JoinHandle::abort
    mutex,          \* holder of SharedService.inner's Mutex, <<>> when free
    ffi,            \* FFI calls on the handle now executing: <<caller, call>>
    ffiAfterFree,   \* an FFI call was started on a deallocated handle
    bg_pc,          \* background task: "idle", "draining", "processing", "finished", "dropped"
    bg_failed,      \* SharedInner.bg_failed
    bg_error_buf,   \* SharedInner.bg_error_buf is Some
    fut,            \* ServiceFuture of a context: "none", "pending", "spawned", "done"
    box,            \* RawBox<CallbackContext>: "none", "alloc", "freed"
    slot,           \* CallbackContext = Option<Sender>: "some" or "taken"
    chan,           \* oneshot channel: "empty", "ok", "err"
    reply,          \* daemon's reply for a context: "idle", "ok", "err" (on the socket), "done"
    sockErr,        \* the daemon connection is broken: process_result fails
    rec,            \* DNSRecord: "none", "registering", "adding", "inFuture", "live",
                    \*            "dropping", "removing", "gone", "failed"
    raw,            \* DNSRecord.raw: "null" or "ref"
    origin,         \* how the record was made: "none", "add", "register", "txt"
    kept,           \* keep() was called on the record
    removes,        \* number of DNSServiceRemoveRecord calls made for the record
    uaf,            \* the contexts a callback ran with after they were freed
    panicked,       \* an expect() in run_callback failed
    \* ---- SpecStream
    s_sock,         \* replies on the stream's socket, oldest first: <<code, n>>
    s_sockErr,      \* DNSServiceProcessResult fails on the stream's handle
    s_sent,         \* number of replies the daemon has sent
    s_queue,        \* the unbounded channel of the stream
    s_fired,        \* the callbacks run so far, in order
    s_returned,     \* what the polls returned so far: <<source, code, n>>
    s_afterErr,     \* outcomes of the polls made after a poll returned an error
    \* ---- SpecSubmit
    sub_op,         \* "browse" or "register"
    sub_strs,       \* the string arguments, in order of conversion
    sub_code,       \* the code the C entry point returns
    sub_evOk,       \* the readiness source can be created
    sub_pc,         \* "start" before the call, "done" after it
    sub_result,     \* what the construction function returned: "none", "Err",
                    \* "Register", "Browse"
    sub_handle,     \* the native handle: "none", "live", "freed"
    sub_box,        \* the callback context: "none", "alloc", "freed"
    sub_readiness,  \* a readiness source is registered for the fd
    sub_bg,         \* a background task was spawned
    sub_fused,      \* FusedErrorStream of the Browse: "none", "ErrSome", "ErrNone", "Stream"
    sub_polls,      \* what the polls of the Browse returned, in order
    \* ---- SpecFuture
    sf_handle,      \* the native handle: "none", "live", "freed"
    sf_owner,       \* who holds the service: "Register", "Registration", "dropped"
    sf_fut,         \* ServiceFuture.0: "some", "none"; "dropped" with the Register
    sf_box,         \* the callback context: "alloc", "freed"
    sf_slot,        \* Option<oneshot::Sender> in the box: "some", "taken"
    sf_chan,        \* the oneshot channel: "empty", "ok", "err"
    sf_sent,        \* number of replies the daemon has sent
    sf_failed,      \* SharedInner.bg_failed
    sf_errbuf,      \* SharedInner.bg_error_buf holds the error
    sf_runs,        \* number of runs of register_callback
    sf_panicked,    \* an expect() failed
    sf_uaf,         \* register_callback ran on a freed context
    sf_first,       \* the first Ready result of the future: "none", "value", "error"
    sf_after,       \* outcomes of the polls made after the first Ready result
    \* ---- SpecNotify
    n_mutex,        \* holder of the Mutex<SharedInner>
    n_failed,       \* SharedInner.bg_failed
    n_errbuf,       \* SharedInner.bg_error_buf holds the error
    n_bg,           \* background task: "idle", "polling", "finished"; "none" when unused
    n_pc,           \* per task: "start", "locked", "checked", "waiting", "woken", "error"
    n_waiters,      \* tasks registered in the waiter list of the Notify
    n_woken,        \* tasks whose waker was called and that were not yet scheduled
    \* ---- SpecTimeout
    t_d,            \* TimeoutStream.duration
    t_now,          \* the clock
    t_inner,        \* results the inner stream has ready, oldest first
    t_innerDone,    \* the inner stream has ended
    t_produced,     \* number of results of the inner stream
    t_timer,        \* TimeoutStream.timeout: <<>> or <<deadline>>
    t_timerOk,      \* Timeout::new and Timeout::poll succeed
    t_base,         \* <<time>> of the last emitted item or of the first wait
    t_out,          \* per polled inner result: <<kind, n, output, n, timer ok>>
    t_lastProd,     \* <<time>> of the last item of the inner stream
    t_gapsShort,    \* all gaps between consecutive items were shorter than d
    t_cutShort,     \* an item came after the timeout ended a stream of short gaps
    t_timedOut,     \* a poll ended the stream on the timer
    t_itemAfterEnd, \* a poll returned an item after that
    t_earlyEnd,     \* a poll ended the stream before d had elapsed
    t_missedEnd,    \* a poll found nothing ready after d and did not end the stream
    \* ---- SpecWindows
    w_data,         \* messages on the socket that were not read
    w_arrivals,     \* messages written so far
    w_pending,      \* Inner.pending_request
    w_req,          \* requests on the way to the select thread
    w_resp,         \* responses in the response channel
    w_thread,       \* the select thread: "waiting" for a request, "selecting", "exited"
    w_pc,           \* the task in process: "idle", "drain", "clear"; or "dropped"
    w_waker,        \* the task is registered with the response channel
    w_woken,        \* the task was woken and will be polled
    w_panicked,     \* an assert! or unreachable! was hit
    \* ---- SpecUnix
    u_log,          \* per finished call: <<function, poll() result, error, returned>>
    u_eintr,        \* times the running is_readable was interrupted
    \* ---- SpecRdata
    r_log,          \* per call: <<operation, rdata.len(), "ffi" or "panic", rd_len passed>>
    \* ---- SpecTxt
    x_data,         \* TxtRecord.0, the buffer
    x_last,         \* the last call: <<function, key or bytes, Option, buffer before, result>>
    \* ---- SpecInterface
    i_log,          \* per conversion: <<function, raw value, selector, raw value of it>>
    \* ---- SpecFlags
    f_log,          \* per conversion: <<"into" or "from", flag, word, set>>
    \* ---- SpecError
    e_log,          \* per conversion: <<code, "Ok" or variant, name, code carried>>
    \* ---- SpecResolveHost
    h_v6,           \* answers to the AAAA query that were not polled
    h_v4,           \* answers to the A query that were not polled
    h_out,          \* what the merged stream returned: <<"item", query, answer, scope id>>
                    \* or <<"err", query>>
    h_dropped,      \* the <<query, answer>> that were dropped, in their order
    h_answers,      \* number of answers so far
    \* ---- SpecProcess
    p_data,         \* messages on the socket that were not read
    p_arrivals,     \* messages written so far
    p_pc,           \* process: "idle", or in its "loop"
    p_calls,        \* calls of the closure in the running process
    p_log,          \* the finished calls
    \* ---- SpecFd
    fd_platform,    \* "unix" or "windows"
    fd_path,        \* "owned" (OwnedService) or "shared" (after share())
    fd_handle,      \* the native handle and its socket: "live", "freed"
    fd_owner,       \* the OwnedService or the last SharedService: "alive", "dropping", "dropped"
    fd_bg,          \* the background task: "none", "running", "finished", "aborted", "dropped"
    fd_reg,         \* the fd is registered with the reactor
    fd_thread,      \* the select thread: "none", "waiting", "selecting", "exited"
    fd_req,         \* requests on the way to the select thread
    fd_polls,       \* calls of process so far
    fd_late,        \* operations on the fd after the handle was deallocated
    \* ---- SpecReader
    rs_fixed,       \* bytes of the fixed-size fields of the struct
    rs_strlen,      \* bytes of its string, without the zero
    rs_exact,       \* the size hint is Exact: the struct has no string
    rs_sent,        \* bytes the peer has written
    rs_have,        \* bytes read into the window
    rs_want,        \* size of the window read_exact fills
    rs_woken,       \* the task is scheduled to be polled
    rs_registered,  \* the task is registered with the stream's read readiness
    rs_result,      \* "pending", "Ok" or the error
    \* ---- SpecCodec
    codec_last      \* the last round trip of a string

handleVars == <<sd_ref, deallocs, holders, bg_abort>>
lockVars   == <<mutex, ffi, ffiAfterFree>>
bgVars     == <<bg_pc, bg_failed, bg_error_buf>>
ctxVars    == <<box, slot, chan>>
daemonVars == <<reply, sockErr>>
recVars    == <<rec, raw, origin, kept, removes>>
ubVars     == <<uaf, panicked>>

sharedVars == <<kind, owner, handleVars, lockVars, bgVars, fut, ctxVars, daemonVars,
                recVars, ubVars>>

streamVars == <<s_sock, s_sockErr, s_sent, s_queue, s_fired, s_returned, s_afterErr>>

submitVars == <<sub_op, sub_strs, sub_code, sub_evOk, sub_pc, sub_result, sub_handle,
                sub_box, sub_readiness, sub_bg, sub_fused, sub_polls>>

futureVars == <<sf_handle, sf_owner, sf_fut, sf_box, sf_slot, sf_chan, sf_sent, sf_failed,
                sf_errbuf, sf_runs, sf_panicked, sf_uaf, sf_first, sf_after>>

notifyVars == <<n_mutex, n_failed, n_errbuf, n_bg, n_pc, n_waiters, n_woken>>

timeoutVars == <<t_d, t_now, t_inner, t_innerDone, t_produced, t_timer, t_timerOk, t_base, t_out,
                 t_lastProd, t_gapsShort, t_cutShort, t_timedOut, t_itemAfterEnd, t_earlyEnd,
                 t_missedEnd>>

windowsVars == <<w_data, w_arrivals, w_pending, w_req, w_resp, w_thread, w_pc, w_waker, w_woken,
                 w_panicked>>

unixVars == <<u_log, u_eintr>>

rdataVars == <<r_log>>

txtVars == <<x_data, x_last>>

interfaceVars == <<i_log>>

flagsVars == <<f_log>>

errorVars == <<e_log>>

resolveHostVars == <<h_v6, h_v4, h_out, h_dropped, h_answers>>

processVars == <<p_data, p_arrivals, p_pc, p_calls, p_log>>

fdVars == <<fd_platform, fd_path, fd_handle, fd_owner, fd_bg, fd_reg, fd_thread, fd_req, fd_polls, fd_late>>

readerVars == <<rs_fixed, rs_strlen, rs_exact, rs_sent, rs_have, rs_want, rs_woken, rs_registered, rs_result>>

codecVars == <<codec_last>>

\* what the actions of one specification leave alone
notShared == <<streamVars, submitVars, futureVars, notifyVars, timeoutVars, windowsVars, unixVars, rdataVars, txtVars, interfaceVars, flagsVars, errorVars, resolveHostVars, processVars, fdVars, readerVars, codecVars>>
notStream == <<sharedVars, submitVars, futureVars, notifyVars, timeoutVars, windowsVars, unixVars, rdataVars, txtVars, interfaceVars, flagsVars, errorVars, resolveHostVars, processVars, fdVars, readerVars, codecVars>>
notSubmit == <<sharedVars, streamVars, futureVars, notifyVars, timeoutVars, windowsVars, unixVars, rdataVars, txtVars, interfaceVars, flagsVars, errorVars, resolveHostVars, processVars, fdVars, readerVars, codecVars>>
notFuture == <<sharedVars, streamVars, submitVars, notifyVars, timeoutVars, windowsVars, unixVars, rdataVars, txtVars, interfaceVars, flagsVars, errorVars, resolveHostVars, processVars, fdVars, readerVars, codecVars>>
notNotify == <<sharedVars, streamVars, submitVars, futureVars, timeoutVars, windowsVars, unixVars, rdataVars, txtVars, interfaceVars, flagsVars, errorVars, resolveHostVars, processVars, fdVars, readerVars, codecVars>>

notTimeout == <<sharedVars, streamVars, submitVars, futureVars, notifyVars, windowsVars, unixVars, rdataVars, txtVars, interfaceVars, flagsVars, errorVars, resolveHostVars, processVars, fdVars, readerVars, codecVars>>

notWindows == <<sharedVars, streamVars, submitVars, futureVars, notifyVars, timeoutVars, unixVars, rdataVars, txtVars, interfaceVars, flagsVars, errorVars, resolveHostVars, processVars, fdVars, readerVars, codecVars>>

notUnix == <<sharedVars, streamVars, submitVars, futureVars, notifyVars, timeoutVars, windowsVars, rdataVars, txtVars, interfaceVars, flagsVars, errorVars, resolveHostVars, processVars, fdVars, readerVars, codecVars>>

notRdata == <<sharedVars, streamVars, submitVars, futureVars, notifyVars, timeoutVars, windowsVars, unixVars, txtVars, interfaceVars, flagsVars, errorVars, resolveHostVars, processVars, fdVars, readerVars, codecVars>>

notTxt == <<sharedVars, streamVars, submitVars, futureVars, notifyVars, timeoutVars, windowsVars, unixVars, rdataVars, interfaceVars, flagsVars, errorVars, resolveHostVars, processVars, fdVars, readerVars, codecVars>>

notInterface == <<sharedVars, streamVars, submitVars, futureVars, notifyVars, timeoutVars, windowsVars, unixVars, rdataVars, txtVars, flagsVars, errorVars, resolveHostVars, processVars, fdVars, readerVars, codecVars>>

notFlags == <<sharedVars, streamVars, submitVars, futureVars, notifyVars, timeoutVars, windowsVars, unixVars, rdataVars, txtVars, interfaceVars, errorVars, resolveHostVars, processVars, fdVars, readerVars, codecVars>>

notError == <<sharedVars, streamVars, submitVars, futureVars, notifyVars, timeoutVars, windowsVars, unixVars, rdataVars, txtVars, interfaceVars, flagsVars, resolveHostVars, processVars, fdVars, readerVars, codecVars>>

notResolveHost == <<sharedVars, streamVars, submitVars, futureVars, notifyVars, timeoutVars, windowsVars, unixVars, rdataVars, txtVars, interfaceVars, flagsVars, errorVars, processVars, fdVars, readerVars, codecVars>>

notProcess == <<sharedVars, streamVars, submitVars, futureVars, notifyVars, timeoutVars, windowsVars, unixVars, rdataVars, txtVars, interfaceVars, flagsVars, errorVars, resolveHostVars, fdVars, readerVars, codecVars>>

notFd == <<sharedVars, streamVars, submitVars, futureVars, notifyVars, timeoutVars, windowsVars, unixVars, rdataVars, txtVars, interfaceVars, flagsVars, errorVars, resolveHostVars, processVars, readerVars, codecVars>>

notReader == <<sharedVars, streamVars, submitVars, futureVars, notifyVars, timeoutVars, windowsVars, unixVars, rdataVars, txtVars, interfaceVars, flagsVars, errorVars, resolveHostVars, processVars, fdVars, codecVars>>

notCodec == <<sharedVars, streamVars, submitVars, futureVars, notifyVars, timeoutVars, windowsVars, unixVars, rdataVars, txtVars, interfaceVars, flagsVars, errorVars, resolveHostVars, processVars, fdVars, readerVars>>

vars == <<sharedVars, streamVars, submitVars, futureVars, notifyVars, timeoutVars, windowsVars, unixVars, rdataVars, txtVars, interfaceVars, flagsVars, errorVars, resolveHostVars, processVars, fdVars, readerVars, codecVars>>

----------------------------------------------------------------------------
(* Identities of callers and of holders of the handle.                     *)

Free    == <<>>
BG      == <<"bg">>
User(r) == <<"user", r>>

OwnerRef  == <<"owner">>
FutRef(c) == <<"fut", c>>
RecRef(r) == <<"rec", r>>

----------------------------------------------------------------------------
(* Arc<ManagedService> / Arc<Mutex<SharedInner>> / Arc<AbortHandle>        *)

\* Arc::clone of a SharedService: no effect on the handle
Acquire(hs) ==
    /\ holders' = holders \cup hs
    /\ UNCHANGED <<sd_ref, deallocs, bg_abort>>

\* A wrong ownership: the handle is deallocated with the last SharedService
\* clone, although the background task still refers to it.
ReleaseWithLastClone(hs) ==
    LET left == holders \ hs IN
    /\ holders' = left
    /\ IF (left \ {BG}) = {} /\ (holders \ {BG}) # {}
          THEN sd_ref' = "freed" /\ deallocs' = deallocs + 1
          ELSE IF left = {} /\ holders # {}
                  THEN sd_ref' = "freed" /\ deallocs' = deallocs + 1
                  ELSE UNCHANGED <<sd_ref, deallocs>>
    /\ bg_abort' = (bg_abort \/ (left \ {BG}) = {})

\* A wrong abort: dropping any clone aborts the background task.
ReleaseAbortsAlways(hs) ==
    LET left == holders \ hs IN
    /\ holders' = left
    /\ IF left = {} /\ holders # {}
          THEN sd_ref' = "freed" /\ deallocs' = deallocs + 1
          ELSE UNCHANGED <<sd_ref, deallocs>>
    /\ bg_abort' = TRUE

\* Drop of the clones hs. SharedService drops `inner` (the last Arc drops
\* SharedInner, ServiceHandle, ManagedService: DNSServiceRefDeallocate), then
\* `_bg_task_handle` (the last Arc<AbortHandle> aborts the background task).
\* The background task holds `bg_inner` but no AbortHandle.
Release(hs) ==
    LET left == holders \ hs IN
    /\ holders' = left
    /\ IF left = {} /\ holders # {}
          THEN sd_ref' = "freed" /\ deallocs' = deallocs + 1
          ELSE UNCHANGED <<sd_ref, deallocs>>
    /\ bg_abort' = (bg_abort \/ (left \ {BG}) = {})

----------------------------------------------------------------------------
(* The mutex of SharedInner and the FFI calls made under it.               *)

\* A lock that does not wait for its holder.
LockNoWait(who) == mutex' = who

\* self.inner.lock().unwrap()
Lock(who) == mutex = Free /\ mutex' = who

Unlock == mutex' = Free

StartFFI(who, call) ==
    /\ ffi' = ffi \cup {<<who, call>>}
    /\ ffiAfterFree' = (ffiAfterFree \/ sd_ref # "live")

EndFFI(who, call) ==
    /\ ffi' = ffi \ {<<who, call>>}
    /\ UNCHANGED ffiAfterFree

\* record r is borrowed by a running update_record(&self)
Busy(r) == <<User(r), "UpdateRecord">> \in ffi

----------------------------------------------------------------------------
(* The daemon and the C library.                                           *)

\* the C library still has record r in the handle's record list
Registered(r) ==
    /\ origin[r] = "register"
    /\ removes[r] = 0
    /\ sd_ref = "live"

\* the C library knows the context pointer c and may call back with it
CallbackArmed(c) ==
    IF c = 0 THEN kind = "register" /\ sd_ref = "live" ELSE Registered(c)

is_readable == sockErr \/ \E c \in Ctx : reply[c] \in {"ok", "err"}

\* the daemon answers the registration of context c (at most once)
daemon_reply(c) ==
    /\ reply[c] = "idle"
    /\ CallbackArmed(c)
    /\ \E code \in {"ok", "err"} : reply' = [reply EXCEPT ![c] = code]
    /\ UNCHANGED <<notShared, kind, owner, handleVars, lockVars, bgVars, fut, ctxVars, sockErr,
                   recVars, ubVars>>

\* the connection to the daemon breaks
daemon_fail ==
    /\ ~sockErr
    /\ sd_ref = "live"
    /\ sockErr' = TRUE
    /\ UNCHANGED <<notShared, kind, owner, handleVars, lockVars, bgVars, fut, ctxVars, reply,
                   recVars, ubVars>>

----------------------------------------------------------------------------
(* ServiceFuture::run_callback, reached from DNSServiceProcessResult.      *)

\* the effect of the trampoline on the contexts, with the reply `code`
run_callback(c, code) ==
    IF box[c] # "alloc"
       THEN \* `&mut *sender` on freed memory: undefined; the slot read there
            \* is Some (the write is lost) or None (expect panics)
            /\ uaf' = uaf \cup {c}
            /\ panicked' \in {panicked, TRUE}
            /\ UNCHANGED <<slot, chan>>
       ELSE IF slot[c] = "taken"
               THEN \* expect("callback must be run only once")
                    /\ panicked' = TRUE
                    /\ UNCHANGED <<uaf, slot, chan>>
               ELSE /\ slot' = [slot EXCEPT ![c] = "taken"]
                    /\ chan' = [chan EXCEPT ![c] = code]
                    /\ UNCHANGED <<uaf, panicked>>

----------------------------------------------------------------------------
(* The background task spawned by OwnedService::share.                     *)

\* poll_fn closure: bg_inner.lock(), then processing.process observes readiness
bg_poll ==
    /\ bg_pc = "idle"
    /\ ~bg_abort
    /\ Lock(BG)
    /\ bg_pc' = "draining"
    /\ UNCHANGED <<notShared, kind, owner, handleVars, ffi, ffiAfterFree, bg_failed, bg_error_buf,
                   fut, ctxVars, daemonVars, recVars, ubVars>>

\* while is_readable(fd): DNSServiceProcessResult(raw)
bg_process_begin ==
    /\ bg_pc = "draining"
    /\ is_readable
    /\ StartFFI(BG, "ProcessResult")
    /\ bg_pc' = "processing"
    /\ UNCHANGED <<notShared, kind, owner, handleVars, mutex, bg_failed, bg_error_buf,
                   fut, ctxVars, daemonVars, recVars, ubVars>>

\* DNSServiceProcessResult reads a reply and calls its callback
bg_callback(c) ==
    /\ bg_pc = "processing"
    /\ reply[c] \in {"ok", "err"}
    /\ run_callback(c, reply[c])
    /\ reply' = [reply EXCEPT ![c] = "done"]
    /\ UNCHANGED <<notShared, kind, owner, handleVars, lockVars, bgVars, fut, box, sockErr, recVars>>

\* DNSServiceProcessResult returns no error: back to the while loop
bg_process_ok ==
    /\ bg_pc = "processing"
    /\ ~sockErr
    /\ EndFFI(BG, "ProcessResult")
    /\ bg_pc' = "draining"
    /\ UNCHANGED <<notShared, kind, owner, handleVars, mutex, bg_failed, bg_error_buf,
                   fut, ctxVars, daemonVars, recVars, ubVars>>

\* A driver that buffers the error without latching the failure.
bg_process_err_unlatched ==
    /\ bg_pc = "processing"
    /\ sockErr
    /\ EndFFI(BG, "ProcessResult")
    /\ Unlock
    /\ bg_error_buf' = TRUE
    /\ bg_pc' = "finished"
    /\ Release({BG})
    /\ UNCHANGED <<notShared, kind, owner, bg_failed, fut, ctxVars, daemonVars, recVars, ubVars>>

\* DNSServiceProcessResult returns an error: latch it, notify, Poll::Ready(());
\* the finished task drops the closure and with it bg_inner
bg_process_err ==
    /\ bg_pc = "processing"
    /\ sockErr
    /\ EndFFI(BG, "ProcessResult")
    /\ Unlock
    /\ bg_error_buf' = TRUE
    /\ bg_failed' = TRUE
    /\ bg_pc' = "finished"
    /\ Release({BG})
    /\ UNCHANGED <<notShared, kind, owner, fut, ctxVars, daemonVars, recVars, ubVars>>

\* fd drained: clear_read_ready, Poll::Pending, the guard is dropped
bg_pending ==
    /\ bg_pc = "draining"
    /\ ~is_readable
    /\ Unlock
    /\ bg_pc' = "idle"
    /\ UNCHANGED <<notShared, kind, owner, handleVars, ffi, ffiAfterFree, bg_failed, bg_error_buf,
                   fut, ctxVars, daemonVars, recVars, ubVars>>

\* the runtime drops the aborted task between two polls
bg_dropped ==
    /\ bg_pc = "idle"
    /\ bg_abort
    /\ bg_pc' = "dropped"
    /\ Release({BG})
    /\ UNCHANGED <<notShared, kind, owner, lockVars, bg_failed, bg_error_buf,
                   fut, ctxVars, daemonVars, recVars, ubVars>>

----------------------------------------------------------------------------
(* SharedService::poll_service and ServiceFuture::poll.                    *)

\* A poll_service that drives the handle itself, as OwnedService's does.
poll_service_driving(c) ==
    /\ StartFFI(FutRef(c), "ProcessResult")
    /\ UNCHANGED <<mutex, bg_error_buf>>

\* SharedService::poll_service: under the mutex, take the latched error or
\* report "service gone"; otherwise register with the notifier. It makes no
\* FFI call. The result is PollServiceFails.
poll_service(c) ==
    /\ mutex = Free
    /\ bg_error_buf' = FALSE
    /\ UNCHANGED <<mutex, ffi, ffiAfterFree>>

PollServiceFails == bg_error_buf \/ bg_failed

\* ServiceFuture::poll of the Register future (context 0), through
\* Register::poll
poll_register ==
    /\ owner = "Register"
    /\ fut[0] = "pending"
    /\ poll_service(0)
    /\ IF PollServiceFails
          THEN \* `?`: Err, the future keeps its Inner
               UNCHANGED <<owner, handleVars, fut, ctxVars>>
          ELSE /\ chan[0] # "empty"
               \* self.0.take().unwrap().service: the rest of Inner (the box,
               \* the receiver) is dropped, the service goes to the caller
               /\ fut' = [fut EXCEPT ![0] = "done"]
               /\ box' = [box EXCEPT ![0] = "freed"]
               /\ chan' = [chan EXCEPT ![0] = "empty"]
               /\ UNCHANGED slot
               /\ IF chan[0] = "ok"
                     THEN owner' = "Registration" /\ UNCHANGED handleVars
                     ELSE owner' = "dropped" /\ Release({OwnerRef})
    /\ UNCHANGED <<notShared, kind, bg_pc, bg_failed, daemonVars, recVars, ubVars>>

\* RegisterRecord::poll, or the poll of the task spawned by
\* RegisterRecord::keep (fut = "spawned")
poll_register_record(r) ==
    /\ fut[r] \in {"pending", "spawned"}
    /\ fut[r] = "pending" => (rec[r] = "inFuture" /\ ~Busy(r))
    /\ poll_service(r)
    /\ IF PollServiceFails
          THEN IF fut[r] = "pending"
                  THEN UNCHANGED <<handleVars, fut, ctxVars, rec>>
                  ELSE \* fut.map(|_| ()) is ready: the task drops the future
                       /\ fut' = [fut EXCEPT ![r] = "done"]
                       /\ box' = [box EXCEPT ![r] = "freed"]
                       /\ Release({FutRef(r)})
                       /\ UNCHANGED <<slot, chan, rec>>
          ELSE /\ chan[r] # "empty"
               /\ fut' = [fut EXCEPT ![r] = "done"]
               /\ box' = [box EXCEPT ![r] = "freed"]
               /\ chan' = [chan EXCEPT ![r] = "empty"]
               /\ UNCHANGED slot
               /\ Release({FutRef(r)})
               \* Ok: self.record().take().unwrap() hands the Record out;
               \* Err: the RegisterRecord keeps it
               /\ rec' = [rec EXCEPT ![r] =
                            IF fut[r] = "pending" /\ chan[r] = "ok" THEN "live" ELSE @]
    /\ UNCHANGED <<notShared, kind, owner, bg_pc, bg_failed, daemonVars, raw, origin, kept,
                   removes, ubVars>>

----------------------------------------------------------------------------
(* Register / Registration / Connection.                                   *)

\* no &self call of the owner is running
OwnerIdle == \A r \in Rec : rec[r] \notin {"registering", "adding"}

\* A Connection/Registration that owns the native handle itself.
drop_owner_frees ==
    /\ owner \in {"Register", "Registration", "Connection"}
    /\ OwnerIdle
    /\ owner' = "dropped"
    /\ holders' = holders \ {OwnerRef}
    /\ sd_ref' = "freed"
    /\ deallocs' = deallocs + 1
    /\ bg_abort' = TRUE
    /\ UNCHANGED <<fut, ctxVars>>
    /\ UNCHANGED <<notShared, kind, lockVars, bgVars, daemonVars, recVars, ubVars>>

\* drop of the Register future (Inner: service, then _sender, then
\* receiver), of the Registration or of the Connection
drop_owner ==
    /\ owner \in {"Register", "Registration", "Connection"}
    /\ OwnerIdle
    /\ owner' = "dropped"
    /\ Release({OwnerRef})
    /\ IF owner = "Register"
          THEN /\ fut' = [fut EXCEPT ![0] = "done"]
               /\ box' = [box EXCEPT ![0] = "freed"]
               /\ UNCHANGED <<slot, chan>>
          ELSE UNCHANGED <<fut, ctxVars>>
    /\ UNCHANGED <<notShared, kind, lockVars, bgVars, daemonVars, recVars, ubVars>>

----------------------------------------------------------------------------
(* Records: SharedService::add_record / register_record /                  *)
(* get_default_txt_record, DNSRecord::update_record / keep / drop.         *)

\* Registration::add_record or Register::add_record: clone, lock,
\* DNSServiceAddRecord
add_record_begin(r) ==
    /\ kind = "register"
    /\ owner \in {"Register", "Registration"}
    /\ rec[r] = "none"
    /\ Acquire({RecRef(r)})
    /\ Lock(User(r))
    /\ StartFFI(User(r), "AddRecord")
    /\ rec' = [rec EXCEPT ![r] = "adding"]
    /\ UNCHANGED <<notShared, kind, owner, bgVars, fut, ctxVars, daemonVars, raw, origin, kept,
                   removes, ubVars>>

\* DNSServiceAddRecord returned: Ok(DNSRecord) or `?`
add_record_end(r) ==
    /\ rec[r] = "adding"
    /\ EndFFI(User(r), "AddRecord")
    /\ Unlock
    /\ \/ /\ rec' = [rec EXCEPT ![r] = "live"]
          /\ raw' = [raw EXCEPT ![r] = "ref"]
          /\ origin' = [origin EXCEPT ![r] = "add"]
          /\ UNCHANGED handleVars
       \/ /\ rec' = [rec EXCEPT ![r] = "failed"]
          /\ Release({RecRef(r)})
          /\ UNCHANGED <<raw, origin>>
    /\ UNCHANGED <<notShared, kind, owner, bgVars, fut, ctxVars, daemonVars, kept, removes, ubVars>>

\* Registration::get_default_txt_record: a DNSRecord with a null raw
get_default_txt_record(r) ==
    /\ kind = "register"
    /\ owner \in {"Register", "Registration"}
    /\ rec[r] = "none"
    /\ Acquire({RecRef(r)})
    /\ rec' = [rec EXCEPT ![r] = "live"]
    /\ raw' = [raw EXCEPT ![r] = "null"]
    /\ origin' = [origin EXCEPT ![r] = "txt"]
    /\ UNCHANGED <<notShared, kind, owner, lockVars, bgVars, fut, ctxVars, daemonVars, kept,
                   removes, ubVars>>

\* Connection::register_record_extended: the callback context is boxed,
\* the service is cloned for the future and for the record, then lock and
\* DNSServiceRegisterRecord with the context pointer
register_record_begin(r) ==
    /\ kind = "connection"
    /\ owner = "Connection"
    /\ rec[r] = "none"
    /\ Acquire({FutRef(r), RecRef(r)})
    /\ box' = [box EXCEPT ![r] = "alloc"]
    /\ slot' = [slot EXCEPT ![r] = "some"]
    /\ Lock(User(r))
    /\ StartFFI(User(r), "RegisterRecord")
    /\ rec' = [rec EXCEPT ![r] = "registering"]
    /\ UNCHANGED <<notShared, kind, owner, bgVars, fut, chan, daemonVars, raw, origin, kept,
                   removes, ubVars>>

\* DNSServiceRegisterRecord returned: Ok((future, record)), or `?` drops
\* the clones and the box
register_record_end(r) ==
    /\ rec[r] = "registering"
    /\ EndFFI(User(r), "RegisterRecord")
    /\ Unlock
    /\ \/ /\ rec' = [rec EXCEPT ![r] = "inFuture"]
          /\ raw' = [raw EXCEPT ![r] = "ref"]
          /\ origin' = [origin EXCEPT ![r] = "register"]
          /\ fut' = [fut EXCEPT ![r] = "pending"]
          /\ UNCHANGED <<handleVars, box>>
       \/ /\ rec' = [rec EXCEPT ![r] = "failed"]
          /\ box' = [box EXCEPT ![r] = "freed"]
          /\ Release({FutRef(r), RecRef(r)})
          /\ UNCHANGED <<raw, origin, fut>>
    /\ UNCHANGED <<notShared, kind, owner, bgVars, slot, chan, daemonVars, kept, removes, ubVars>>

\* the RegisterRecord or the Record runs no &self call
Holds(r) == rec[r] \in {"inFuture", "live"} /\ ~Busy(r)

\* DNSRecord::update_record: lock, DNSServiceUpdateRecord (also through
\* RegisterRecord::update_record)
update_record_begin(r) ==
    /\ Holds(r)
    /\ rec[r] = "inFuture" => fut[r] = "pending"
    /\ Lock(User(r))
    /\ StartFFI(User(r), "UpdateRecord")
    /\ UNCHANGED <<notShared, kind, owner, handleVars, bgVars, fut, ctxVars, daemonVars, recVars,
                   ubVars>>

update_record_end(r) ==
    /\ Busy(r)
    /\ EndFFI(User(r), "UpdateRecord")
    /\ Unlock
    /\ UNCHANGED <<notShared, kind, owner, handleVars, bgVars, fut, ctxVars, daemonVars, recVars,
                   ubVars>>

\* A keep that leaves the record reference in place.
keep_forgets(r) ==
    /\ Holds(r)
    /\ kept' = [kept EXCEPT ![r] = TRUE]
    /\ rec' = [rec EXCEPT ![r] = "dropping"]
    /\ UNCHANGED raw
    /\ fut' = [fut EXCEPT ![r] = IF @ = "pending" THEN "spawned" ELSE @]
    /\ UNCHANGED <<notShared, kind, owner, handleVars, lockVars, bgVars, ctxVars, daemonVars,
                   origin, removes, ubVars>>

\* A keep that drops the pending future instead of spawning it.
keep_drops_future(r) ==
    /\ Holds(r)
    /\ kept' = [kept EXCEPT ![r] = TRUE]
    /\ rec' = [rec EXCEPT ![r] = "dropping"]
    /\ raw' = [raw EXCEPT ![r] = "null"]
    /\ fut' = [fut EXCEPT ![r] = IF @ = "pending" THEN "done" ELSE @]
    /\ box' = [box EXCEPT ![r] = IF fut[r] = "pending" THEN "freed" ELSE @]
    /\ UNCHANGED <<notShared, kind, owner, handleVars, lockVars, bgVars, slot, chan, daemonVars,
                   origin, removes, ubVars>>

\* Record::keep -> DNSRecord::keep(mut self): raw = null, then self is
\* dropped. RegisterRecord::keep first spawns the future.
keep(r) ==
    /\ Holds(r)
    /\ kept' = [kept EXCEPT ![r] = TRUE]
    /\ rec' = [rec EXCEPT ![r] = "dropping"]
    /\ raw' = [raw EXCEPT ![r] = "null"]
    /\ fut' = [fut EXCEPT ![r] = IF @ = "pending" THEN "spawned" ELSE @]
    /\ UNCHANGED <<notShared, kind, owner, handleVars, lockVars, bgVars, ctxVars, daemonVars,
                   origin, removes, ubVars>>

\* drop of a Record, or of a RegisterRecord: its fields drop in declaration
\* order, `future` (the clone, the box, the receiver) before `record`
drop_record(r) ==
    /\ Holds(r)
    /\ rec' = [rec EXCEPT ![r] = "dropping"]
    /\ IF fut[r] = "pending"
          THEN /\ fut' = [fut EXCEPT ![r] = "done"]
               /\ box' = [box EXCEPT ![r] = "freed"]
               /\ Release({FutRef(r)})
               /\ UNCHANGED <<slot, chan>>
          ELSE UNCHANGED <<fut, ctxVars, handleVars>>
    /\ UNCHANGED <<notShared, kind, owner, lockVars, bgVars, daemonVars, raw, origin, kept,
                   removes, ubVars>>

\* DNSRecord::drop with a null raw: no FFI call; then the field `service`
DNSRecord_drop_null(r) ==
    /\ rec[r] = "dropping"
    /\ raw[r] = "null"
    /\ rec' = [rec EXCEPT ![r] = "gone"]
    /\ Release({RecRef(r)})
    /\ UNCHANGED <<notShared, kind, owner, lockVars, bgVars, fut, ctxVars, daemonVars, raw, origin,
                   kept, removes, ubVars>>

\* DNSRecord::drop: lock, DNSServiceRemoveRecord
DNSRecord_drop_begin(r) ==
    /\ rec[r] = "dropping"
    /\ raw[r] # "null"
    /\ Lock(User(r))
    /\ StartFFI(User(r), "RemoveRecord")
    /\ rec' = [rec EXCEPT ![r] = "removing"]
    /\ removes' = [removes EXCEPT ![r] = @ + 1]
    /\ UNCHANGED <<notShared, kind, owner, handleVars, bgVars, fut, ctxVars, daemonVars, raw, origin,
                   kept, ubVars>>

\* DNSServiceRemoveRecord returned (the C library forgot the record and
\* its replies); the guard is dropped, then the field `service`
DNSRecord_drop_end(r) ==
    /\ rec[r] = "removing"
    /\ EndFFI(User(r), "RemoveRecord")
    /\ Unlock
    /\ rec' = [rec EXCEPT ![r] = "gone"]
    /\ reply' = [reply EXCEPT ![r] = IF @ \in {"ok", "err"} THEN "done" ELSE @]
    /\ Release({RecRef(r)})
    /\ UNCHANGED <<notShared, kind, owner, bgVars, fut, ctxVars, sockErr, raw, origin, kept, removes,
                   ubVars>>

----------------------------------------------------------------------------
(* The parts of the state a specification does not use.                    *)

\* no shared handle has been created
SharedIdle ==
    /\ kind = "none"
    /\ owner = "none"
    /\ sd_ref = "none"
    /\ deallocs = 0
    /\ holders = {}
    /\ bg_abort = FALSE
    /\ mutex = Free
    /\ ffi = {}
    /\ ffiAfterFree = FALSE
    /\ bg_pc = "none"
    /\ bg_failed = FALSE
    /\ bg_error_buf = FALSE
    /\ fut = [c \in Ctx |-> "none"]
    /\ box = [c \in Ctx |-> "none"]
    /\ slot = [c \in Ctx |-> "some"]
    /\ chan = [c \in Ctx |-> "empty"]
    /\ reply = [c \in Ctx |-> "idle"]
    /\ sockErr = FALSE
    /\ rec = [r \in Rec |-> "none"]
    /\ raw = [r \in Rec |-> "null"]
    /\ origin = [r \in Rec |-> "none"]
    /\ kept = [r \in Rec |-> FALSE]
    /\ removes = [r \in Rec |-> 0]
    /\ uaf = {}
    /\ panicked = FALSE

StreamIdle ==
    /\ s_sock = <<>>
    /\ s_sockErr = FALSE
    /\ s_sent = 0
    /\ s_queue = <<>>
    /\ s_fired = <<>>
    /\ s_returned = <<>>
    /\ s_afterErr = {}

SubmitIdle ==
    /\ sub_op = "none"
    /\ sub_strs = <<>>
    /\ sub_code = 0
    /\ sub_evOk = TRUE
    /\ sub_pc = "done"
    /\ sub_result = "none"
    /\ sub_handle = "none"
    /\ sub_box = "none"
    /\ sub_readiness = FALSE
    /\ sub_bg = FALSE
    /\ sub_fused = "none"
    /\ sub_polls = <<>>

FutureIdle ==
    /\ sf_handle = "none"
    /\ sf_owner = "dropped"
    /\ sf_fut = "dropped"
    /\ sf_box = "freed"
    /\ sf_slot = "some"
    /\ sf_chan = "empty"
    /\ sf_sent = 0
    /\ sf_failed = FALSE
    /\ sf_errbuf = FALSE
    /\ sf_runs = 0
    /\ sf_panicked = FALSE
    /\ sf_uaf = FALSE
    /\ sf_first = "none"
    /\ sf_after = {}

NotifyIdle ==
    /\ n_mutex = Free
    /\ n_failed = FALSE
    /\ n_errbuf = FALSE
    /\ n_bg = "none"
    /\ n_pc = <<>>
    /\ n_waiters = {}
    /\ n_woken = {}

TimeoutIdle ==
    /\ t_d = 0
    /\ t_now = 0
    /\ t_inner = <<>>
    /\ t_innerDone = TRUE
    /\ t_produced = 0
    /\ t_timer = <<>>
    /\ t_timerOk = TRUE
    /\ t_base = <<>>
    /\ t_out = <<>>
    /\ t_lastProd = <<>>
    /\ t_gapsShort = TRUE
    /\ t_cutShort = FALSE
    /\ t_timedOut = FALSE
    /\ t_itemAfterEnd = FALSE
    /\ t_earlyEnd = FALSE
    /\ t_missedEnd = FALSE

WindowsIdle ==
    /\ w_data = 0
    /\ w_arrivals = 0
    /\ w_pending = FALSE
    /\ w_req = <<>>
    /\ w_resp = 0
    /\ w_thread = "none"
    /\ w_pc = "none"
    /\ w_waker = FALSE
    /\ w_woken = FALSE
    /\ w_panicked = FALSE

UnixIdle ==
    /\ u_log = <<>>
    /\ u_eintr = 0

RdataIdle ==
    /\ r_log = <<>>

TxtIdle ==
    /\ x_data = <<>>
    /\ x_last = <<>>

InterfaceIdle ==
    /\ i_log = <<>>

FlagsIdle ==
    /\ f_log = <<>>

ErrorIdle ==
    /\ e_log = <<>>

ResolveHostIdle ==
    /\ h_v6 = <<>>
    /\ h_v4 = <<>>
    /\ h_out = <<>>
    /\ h_dropped = <<>>
    /\ h_answers = 0

ProcessIdle ==
    /\ p_data = 0
    /\ p_arrivals = 0
    /\ p_pc = "idle"
    /\ p_calls = 0
    /\ p_log = <<>>

FdIdle ==
    /\ fd_platform = "unix"
    /\ fd_path = "owned"
    /\ fd_handle = "live"
    /\ fd_owner = "alive"
    /\ fd_bg = "none"
    /\ fd_reg = FALSE
    /\ fd_thread = "none"
    /\ fd_req = <<>>
    /\ fd_polls = 0
    /\ fd_late = {}

ReaderIdle ==
    /\ rs_fixed = 0
    /\ rs_strlen = 0
    /\ rs_exact = FALSE
    /\ rs_sent = 0
    /\ rs_have = 0
    /\ rs_want = 0
    /\ rs_woken = FALSE
    /\ rs_registered = FALSE
    /\ rs_result = "none"

CodecIdle ==
    /\ codec_last = <<"none", <<>>, <<>>, "none", <<>>, 0>>

\* every part of the state but that of specification `me` is unused
OthersIdle(me) ==
    /\ IF me = "Spec" THEN TRUE ELSE SharedIdle
    /\ IF me = "SpecStream" THEN TRUE ELSE StreamIdle
    /\ IF me = "SpecSubmit" THEN TRUE ELSE SubmitIdle
    /\ IF me = "SpecFuture" THEN TRUE ELSE FutureIdle
    /\ IF me = "SpecNotify" THEN TRUE ELSE NotifyIdle
    /\ IF me = "SpecTimeout" THEN TRUE ELSE TimeoutIdle
    /\ IF me = "SpecWindows" THEN TRUE ELSE WindowsIdle
    /\ IF me = "SpecUnix" THEN TRUE ELSE UnixIdle
    /\ IF me = "SpecRdata" THEN TRUE ELSE RdataIdle
    /\ IF me = "SpecTxt" THEN TRUE ELSE TxtIdle
    /\ IF me = "SpecInterface" THEN TRUE ELSE InterfaceIdle
    /\ IF me = "SpecFlags" THEN TRUE ELSE FlagsIdle
    /\ IF me = "SpecError" THEN TRUE ELSE ErrorIdle
    /\ IF me = "SpecResolveHost" THEN TRUE ELSE ResolveHostIdle
    /\ IF me = "SpecProcess" THEN TRUE ELSE ProcessIdle
    /\ IF me = "SpecFd" THEN TRUE ELSE FdIdle
    /\ IF me = "SpecReader" THEN TRUE ELSE ReaderIdle
    /\ IF me = "SpecCodec" THEN TRUE ELSE CodecIdle

----------------------------------------------------------------------------
(* The specification of the shared handle.                                 *)

InitShared ==
    /\ kind \in {"register", "connection"}
    /\ owner = (IF kind = "register" THEN "Register" ELSE "Connection")
    /\ sd_ref = "live"
    /\ deallocs = 0
    /\ holders = {BG, OwnerRef}
    /\ bg_abort = FALSE
    /\ mutex = Free
    /\ ffi = {}
    /\ ffiAfterFree = FALSE
    /\ bg_pc = "idle"
    /\ bg_failed = FALSE
    /\ bg_error_buf = FALSE
    /\ fut = [c \in Ctx |-> IF c = 0 /\ kind = "register" THEN "pending" ELSE "none"]
    /\ box = [c \in Ctx |-> IF c = 0 /\ kind = "register" THEN "alloc" ELSE "none"]
    /\ slot = [c \in Ctx |-> "some"]
    /\ chan = [c \in Ctx |-> "empty"]
    /\ reply = [c \in Ctx |-> "idle"]
    /\ sockErr = FALSE
    /\ rec = [r \in Rec |-> "none"]
    /\ raw = [r \in Rec |-> "null"]
    /\ origin = [r \in Rec |-> "none"]
    /\ kept = [r \in Rec |-> FALSE]
    /\ removes = [r \in Rec |-> 0]
    /\ uaf = {}
    /\ panicked = FALSE

Init == InitShared /\ OthersIdle("Spec")

Next ==
    \/ \E c \in Ctx : daemon_reply(c)
    \/ daemon_fail
    \/ bg_poll
    \/ bg_process_begin
    \/ \E c \in Ctx : bg_callback(c)
    \/ bg_process_ok
    \/ bg_process_err
    \/ bg_pending
    \/ bg_dropped
    \/ poll_register
    \/ \E r \in Rec : poll_register_record(r)
    \/ drop_owner
    \/ \E r \in Rec : add_record_begin(r)
    \/ \E r \in Rec : add_record_end(r)
    \/ \E r \in Rec : get_default_txt_record(r)
    \/ \E r \in Rec : register_record_begin(r)
    \/ \E r \in Rec : register_record_end(r)
    \/ \E r \in Rec : update_record_begin(r)
    \/ \E r \in Rec : update_record_end(r)
    \/ \E r \in Rec : keep(r)
    \/ \E r \in Rec : drop_record(r)
    \/ \E r \in Rec : DNSRecord_drop_null(r)
    \/ \E r \in Rec : DNSRecord_drop_begin(r)
    \/ \E r \in Rec : DNSRecord_drop_end(r)

Spec == Init /\ [][Next]_vars

----------------------------------------------------------------------------
(* Error codes (src/src/ffi.rs, src/src/error.rs).                         *)

NoError == 0
ConnectionPending == -65570
BadParam == -65540

\* the codes of ffi::DNSServiceNoError: not every non-zero code is an error
DNSServiceNoError == {NoError, ConnectionPending, -65571, -65572, -65790, -65791, -65792}

\* the codes a C entry point or a callback hands to the library
Codes == {NoError, ConnectionPending, BadParam}

\* Error::from
Error_from(code) == IF code \in DNSServiceNoError THEN "Ok" ELSE "Err"

----------------------------------------------------------------------------
(* One created stream: ServiceStream (src/src/stream.rs) on its own handle *)
(* (src/src/evented/mod.rs).  The stream owns the handle, the boxed sender *)
(* and the receiver, so the channel never closes while the stream exists.  *)
(* A reply of the daemon is <<code, n>>, n its position on the socket; an  *)
(* entry of the channel is <<"Ok" or "Err", n>>.                           *)

IsError(e) == e[2] = "Err"
FromCallback(e) == e[1] = "callback"

\* the entries a poll returned, without the mark of where they came from
Untagged(seq) == [i \in 1..Len(seq) |-> <<seq[i][2], seq[i][3]>>]

unbounded_send_lifo(q, data) == <<data>> \o q

\* mpsc::UnboundedSender::unbounded_send
unbounded_send(q, data) == Append(q, data)

\* ServiceStream::run_callback: data = Error::from(error_code).and_then(f)
ServiceStream_run_callback(q, r) == unbounded_send(q, <<Error_from(r[1]), r[2]>>)

RECURSIVE DNSServiceProcessResult(_, _)
\* DNSServiceProcessResult runs the callback of each reply it reads, in the
\* order of the socket
DNSServiceProcessResult(q, replies) ==
    IF replies = <<>> THEN q
    ELSE DNSServiceProcessResult(ServiceStream_run_callback(q, Head(replies)), Tail(replies))

\* the daemon answers the stream's request once more
s_daemon_reply ==
    /\ s_sent < MaxCallbacks
    /\ \E code \in Codes : s_sock' = Append(s_sock, <<code, s_sent + 1>>)
    /\ s_sent' = s_sent + 1
    /\ UNCHANGED <<notStream, s_sockErr, s_queue, s_fired, s_returned, s_afterErr>>

\* the connection to the daemon breaks: DNSServiceProcessResult fails from now on
s_daemon_fail ==
    /\ ~s_sockErr
    /\ s_sockErr' = TRUE
    /\ UNCHANGED <<notStream, s_sock, s_sent, s_queue, s_fired, s_returned, s_afterErr>>

\* ServiceStream::poll.  EventedDNSService::poll: when the fd is reported
\* readable, process_result reads k buffered replies and runs their callbacks;
\* its failure leaves poll through `?` before the receiver is looked at.
\* Then receiver.poll() takes the head of the channel.
ServiceStream_poll ==
    /\ Len(s_returned) < MaxPolls
    /\ \E ready \in (IF s_sock # <<>> \/ s_sockErr THEN BOOLEAN ELSE {FALSE}) :
       \E k \in 0..Len(s_sock) :
          LET n        == IF ready THEN k ELSE 0
              read     == SubSeq(s_sock, 1, n)
              q        == DNSServiceProcessResult(s_queue, read)
              failed   == ready /\ s_sockErr
              outcome  == IF failed THEN "error"
                          ELSE IF q = <<>> THEN "pending"
                          ELSE IF Head(q)[1] = "Err" THEN "error" ELSE "item"
              hadError == \E i \in 1..Len(s_returned) : IsError(s_returned[i])
          IN  /\ ready /\ ~s_sockErr => k >= 1
              /\ ~ready => k = 0
              /\ s_sock' = SubSeq(s_sock, n + 1, Len(s_sock))
              /\ s_fired' = s_fired \o [i \in 1..n |-> <<Error_from(read[i][1]), read[i][2]>>]
              /\ IF failed
                    THEN /\ s_queue' = q
                         /\ s_returned' = Append(s_returned, <<"process_result", "Err", 0>>)
                    ELSE IF q = <<>>
                    THEN UNCHANGED <<s_queue, s_returned>>
                    ELSE /\ s_queue' = Tail(q)
                         /\ s_returned' = Append(s_returned, <<"callback">> \o Head(q))
              /\ s_afterErr' = IF hadError THEN s_afterErr \cup {outcome} ELSE s_afterErr
    /\ UNCHANGED <<notStream, s_sockErr, s_sent>>

InitStream == StreamIdle /\ OthersIdle("SpecStream")

NextStream ==
    \/ s_daemon_reply
    \/ s_daemon_fail
    \/ ServiceStream_poll

SpecStream == InitStream /\ [][NextStream]_vars

----------------------------------------------------------------------------
(* The construction functions browse_extended (src/src/service/browse.rs)  *)
(* and register_extended (src/src/service/register.rs) on all inputs.      *)
(* A string is a sequence of bytes; an optional string is <<>> or <<s>>.   *)

Bytes == {0, 97}

Strings == UNION {[1..n -> Bytes] : n \in 0..MaxStrLen}

OptStrings == {<<>>} \cup {<<s>> : s \in Strings}

CString_new_unchecked(s) == "Ok"

\* ffi::CString::new: an interior NUL byte is an error
CString_new(s) == IF \E i \in 1..Len(s) : s[i] = 0 THEN "NulError" ELSE "Ok"

\* CStr::from
CStr_from(s) == CString_new(s)

\* NullableCStr::from
NullableCStr_from(o) == IF o = <<>> THEN "Ok" ELSE CString_new(o[1])

\* the conversions of the arguments, which `?` leaves at the first error:
\* browse converts reg_type, domain; register converts name, reg_type,
\* domain, host
Converted(op, strs) ==
    IF op = "browse"
       THEN CStr_from(strs[1][1]) = "Ok" /\ NullableCStr_from(strs[2]) = "Ok"
       ELSE /\ NullableCStr_from(strs[1]) = "Ok"
            /\ CStr_from(strs[2][1]) = "Ok"
            /\ NullableCStr_from(strs[3]) = "Ok"
            /\ NullableCStr_from(strs[4]) = "Ok"

\* OwnedService::browse, OwnedService::register: the C entry point allocates
\* the handle when Error::from accepts its code; OwnedService::new wraps the
\* handle and registers the readiness source, and drops the handle when that
\* fails.  The result is <<outcome, handle, readiness>>.
OwnedService_new(evOk) ==
    IF evOk THEN <<"Ok", "live", TRUE>> ELSE <<"Err", "freed", FALSE>>

OwnedService_submit(code, evOk) ==
    IF Error_from(code) = "Err" THEN <<"Err", "none", FALSE>> ELSE OwnedService_new(evOk)

\* ServiceStream::new, ServiceFuture::new: the context is boxed, the closure
\* submits the request with its pointer, and `?` drops the box on failure.
\* The result is <<outcome, handle, readiness, box>>.
Callback_new(code, evOk) ==
    LET s == OwnedService_submit(code, evOk)
    IN  s \o <<IF s[1] = "Ok" THEN "alloc" ELSE "freed">>

\* register_extended
register_extended ==
    /\ sub_op = "register" /\ sub_pc = "start"
    /\ sub_pc' = "done"
    /\ IF ~Converted(sub_op, sub_strs)
          THEN /\ sub_result' = "Err"
               /\ UNCHANGED <<sub_handle, sub_box, sub_readiness, sub_bg>>
          ELSE LET f == Callback_new(sub_code, sub_evOk)
               IN  /\ sub_result' = (IF f[1] = "Ok" THEN "Register" ELSE "Err")
                   /\ sub_handle' = f[2]
                   /\ sub_readiness' = f[3]
                   /\ sub_box' = f[4]
                   \* .map(|s| s.share()) spawns the background task
                   /\ sub_bg' = (f[1] = "Ok")
    /\ UNCHANGED <<notSubmit, sub_op, sub_strs, sub_code, sub_evOk, sub_fused, sub_polls>>

\* browse_extended: the error of _browse_extended becomes the stream
\* FusedErrorStream::from(Err(e))
browse_extended ==
    /\ sub_op = "browse" /\ sub_pc = "start"
    /\ sub_pc' = "done"
    /\ sub_result' = "Browse"
    /\ IF ~Converted(sub_op, sub_strs)
          THEN /\ sub_fused' = "ErrSome"
               /\ UNCHANGED <<sub_handle, sub_box, sub_readiness>>
          ELSE LET s == Callback_new(sub_code, sub_evOk)
               IN  /\ sub_fused' = (IF s[1] = "Ok" THEN "Stream" ELSE "ErrSome")
                   /\ sub_handle' = s[2]
                   /\ sub_readiness' = s[3]
                   /\ sub_box' = s[4]
    /\ UNCHANGED <<notSubmit, sub_op, sub_strs, sub_code, sub_evOk, sub_bg, sub_polls>>

\* FusedErrorStream::poll_next on the returned Browse: the construction error
\* is returned once, then the stream has ended; a created stream is polled
\* and has no reply yet
poll_next ==
    /\ sub_result = "Browse"
    /\ Len(sub_polls) < MaxPolls
    /\ \/ /\ sub_fused = "ErrSome"
          /\ sub_fused' = "ErrNone"
          /\ sub_polls' = Append(sub_polls, "error")
       \/ /\ sub_fused = "ErrNone"
          /\ sub_polls' = Append(sub_polls, "end")
          /\ UNCHANGED sub_fused
       \/ /\ sub_fused = "Stream"
          /\ sub_polls' = Append(sub_polls, "pending")
          /\ UNCHANGED sub_fused
    /\ UNCHANGED <<notSubmit, sub_op, sub_strs, sub_code, sub_evOk, sub_pc, sub_result,
                   sub_handle, sub_box, sub_readiness, sub_bg>>

InitSubmit ==
    /\ sub_op \in {"browse", "register"}
    /\ sub_strs \in [1..(IF sub_op = "browse" THEN 2 ELSE 4) -> OptStrings]
    \* reg_type is a &str, not an Option
    /\ sub_strs[IF sub_op = "browse" THEN 1 ELSE 2] # <<>>
    /\ sub_code \in Codes
    /\ sub_evOk \in BOOLEAN
    /\ sub_pc = "start"
    /\ sub_result = "none"
    /\ sub_handle = "none"
    /\ sub_box = "none"
    /\ sub_readiness = FALSE
    /\ sub_bg = FALSE
    /\ sub_fused = "none"
    /\ sub_polls = <<>>
    /\ OthersIdle("SpecSubmit")

NextSubmit ==
    \/ register_extended
    \/ browse_extended
    \/ poll_next

SpecSubmit == InitSubmit /\ [][NextSubmit]_vars

----------------------------------------------------------------------------
(* One registration: the Register future, its callback context and the     *)
(* handle, which the background task drives as long as it is live          *)
(* (src/src/future.rs, src/src/service/register.rs).  The daemon calls     *)
(* register_callback for every reply it sends on the handle.               *)

\* DNSServiceProcessResult reads a reply of the daemon and calls
\* register_callback: ServiceFuture::run_callback on the context pointer
register_callback ==
    /\ sf_handle = "live"
    /\ ~sf_failed
    /\ sf_sent < MaxReplies
    /\ sf_sent' = sf_sent + 1
    /\ sf_runs' = sf_runs + 1
    /\ \E code \in {"ok", "err"} :
          IF sf_box # "alloc"
             THEN \* `&mut *sender` on freed memory: undefined
                  /\ sf_uaf' = TRUE
                  /\ sf_panicked' \in {sf_panicked, TRUE}
                  /\ UNCHANGED <<sf_slot, sf_chan>>
             ELSE IF sf_slot = "taken"
                     THEN \* expect("callback must be run only once")
                          /\ sf_panicked' = TRUE
                          /\ UNCHANGED <<sf_uaf, sf_slot, sf_chan>>
                     ELSE /\ sf_slot' = "taken"
                          /\ sf_chan' = code
                          /\ UNCHANGED <<sf_uaf, sf_panicked>>
    /\ UNCHANGED <<notFuture, sf_handle, sf_owner, sf_fut, sf_box, sf_failed, sf_errbuf,
                   sf_first, sf_after>>

\* bg_task: DNSServiceProcessResult returns an error, which is latched
sf_bg_fails ==
    /\ sf_handle = "live"
    /\ ~sf_failed
    /\ sf_failed' = TRUE
    /\ sf_errbuf' = TRUE
    /\ UNCHANGED <<notFuture, sf_handle, sf_owner, sf_fut, sf_box, sf_slot, sf_chan, sf_sent,
                   sf_runs, sf_panicked, sf_uaf, sf_first, sf_after>>

\* Register::poll, that is ServiceFuture::poll: NotReady when the Inner was
\* taken; poll_service()? returns the latched failure and keeps the Inner;
\* a received result takes the Inner apart: the box and the receiver are
\* dropped, the service goes to the Registration or, with `item?`, is dropped
sf_poll ==
    /\ sf_fut \in {"some", "none"}
    /\ LET fails   == sf_errbuf \/ sf_failed
           outcome == IF sf_fut = "none" THEN "pending"
                      ELSE IF fails THEN "error"
                      ELSE IF sf_chan = "empty" THEN "pending"
                      ELSE IF sf_chan = "ok" THEN "value" ELSE "error"
           received == sf_fut = "some" /\ ~fails /\ sf_chan # "empty"
       IN  /\ sf_errbuf' = (IF sf_fut = "some" THEN FALSE ELSE sf_errbuf)
           /\ IF received
                 THEN /\ sf_fut' = "none"
                      /\ sf_box' = "freed"
                      /\ sf_chan' = "empty"
                      /\ sf_owner' = (IF sf_chan = "ok" THEN "Registration" ELSE "dropped")
                      /\ sf_handle' = (IF sf_chan = "ok" THEN sf_handle ELSE "freed")
                 ELSE UNCHANGED <<sf_fut, sf_box, sf_chan, sf_owner, sf_handle>>
           /\ IF sf_first # "none"
                 THEN sf_after' = sf_after \cup {outcome} /\ UNCHANGED sf_first
                 ELSE sf_first' = (IF outcome = "pending" THEN "none" ELSE outcome)
                      /\ UNCHANGED sf_after
    /\ UNCHANGED <<notFuture, sf_slot, sf_sent, sf_failed, sf_runs, sf_panicked, sf_uaf>>

\* the Register is dropped: a pending one drops its Inner, the service with it
drop_register ==
    /\ sf_fut \in {"some", "none"}
    /\ sf_fut' = "dropped"
    /\ IF sf_fut = "some"
          THEN sf_box' = "freed" /\ sf_owner' = "dropped" /\ sf_handle' = "freed"
          ELSE UNCHANGED <<sf_box, sf_owner, sf_handle>>
    /\ UNCHANGED <<notFuture, sf_slot, sf_chan, sf_sent, sf_failed, sf_errbuf, sf_runs,
                   sf_panicked, sf_uaf, sf_first, sf_after>>

\* the Registration is dropped: the handle is deallocated
drop_registration ==
    /\ sf_owner = "Registration"
    /\ sf_owner' = "dropped"
    /\ sf_handle' = "freed"
    /\ UNCHANGED <<notFuture, sf_fut, sf_box, sf_slot, sf_chan, sf_sent, sf_failed, sf_errbuf,
                   sf_runs, sf_panicked, sf_uaf, sf_first, sf_after>>

\* the state register_extended returns
InitFuture ==
    /\ sf_handle = "live"
    /\ sf_owner = "Register"
    /\ sf_fut = "some"
    /\ sf_box = "alloc"
    /\ sf_slot = "some"
    /\ sf_chan = "empty"
    /\ sf_sent = 0
    /\ sf_failed = FALSE
    /\ sf_errbuf = FALSE
    /\ sf_runs = 0
    /\ sf_panicked = FALSE
    /\ sf_uaf = FALSE
    /\ sf_first = "none"
    /\ sf_after = {}
    /\ OthersIdle("SpecFuture")

NextFuture ==
    \/ register_callback
    \/ sf_bg_fails
    \/ sf_poll
    \/ drop_register
    \/ drop_registration

SpecFuture == InitFuture /\ [][NextFuture]_vars

----------------------------------------------------------------------------
(* The failure notifier of a shared handle: the observers are tasks that   *)
(* poll a future depending on the handle, each through its own clone of    *)
(* the SharedService and so its own Notified (src/src/inner.rs,            *)
(* src/src/notify.rs).  n_waiters is the waiter list of tokio's Notify,    *)
(* n_woken the tasks whose waker was called.                               *)

Obs == 1..MaxObservers

n_lock_unsynchronized(o) ==
    /\ n_pc[o] \in {"start", "woken"}
    /\ n_pc' = [n_pc EXCEPT ![o] = "locked"]
    /\ UNCHANGED <<notNotify, n_mutex, n_failed, n_errbuf, n_bg, n_waiters, n_woken>>

\* SharedService::poll_service: self.inner.lock().unwrap(), by a task that
\* polls for the first time or was woken
n_lock(o) ==
    /\ n_pc[o] \in {"start", "woken"}
    /\ n_mutex = Free
    /\ n_mutex' = User(o)
    /\ n_pc' = [n_pc EXCEPT ![o] = "locked"]
    /\ UNCHANGED <<notNotify, n_failed, n_errbuf, n_bg, n_waiters, n_woken>>

\* the guard is dropped when poll_service returns
n_unlock(o) == n_mutex' = (IF n_mutex = User(o) THEN Free ELSE n_mutex)

\* poll_service: bg_error_buf.take() or bg_failed return the error
n_check(o) ==
    /\ n_pc[o] = "locked"
    /\ IF n_errbuf \/ n_failed
          THEN /\ n_errbuf' = FALSE
               /\ n_pc' = [n_pc EXCEPT ![o] = "error"]
               /\ n_unlock(o)
          ELSE /\ n_pc' = [n_pc EXCEPT ![o] = "checked"]
               /\ UNCHANGED <<n_errbuf, n_mutex>>
    /\ UNCHANGED <<notNotify, n_failed, n_bg, n_waiters, n_woken>>

\* poll_service: self.bg_fail_notified.poll_unpin(cx) creates the inner
\* Notified on the first poll and registers the task's waker; the dependent
\* future then returns Pending
n_register(o) ==
    /\ n_pc[o] = "checked"
    /\ n_waiters' = n_waiters \cup {o}
    /\ n_pc' = [n_pc EXCEPT ![o] = "waiting"]
    /\ n_unlock(o)
    /\ UNCHANGED <<notNotify, n_failed, n_errbuf, n_bg, n_woken>>

\* the runtime schedules a task whose waker was called
n_wake(o) ==
    /\ n_pc[o] = "waiting"
    /\ o \in n_woken
    /\ n_woken' = n_woken \ {o}
    /\ n_pc' = [n_pc EXCEPT ![o] = "woken"]
    /\ UNCHANGED <<notNotify, n_mutex, n_failed, n_errbuf, n_bg, n_waiters>>

\* the task is polled for another reason
n_spurious(o) ==
    /\ n_pc[o] = "waiting"
    /\ n_pc' = [n_pc EXCEPT ![o] = "woken"]
    /\ UNCHANGED <<notNotify, n_mutex, n_failed, n_errbuf, n_bg, n_waiters, n_woken>>

\* bg_task: bg_inner.lock().unwrap()
n_bg_lock ==
    /\ n_bg = "idle"
    /\ n_mutex = Free
    /\ n_mutex' = BG
    /\ n_bg' = "polling"
    /\ UNCHANGED <<notNotify, n_failed, n_errbuf, n_pc, n_waiters, n_woken>>

\* bg_task: process returned Ok, Poll::Pending
n_bg_ok ==
    /\ n_bg = "polling"
    /\ n_mutex' = Free
    /\ n_bg' = "idle"
    /\ UNCHANGED <<notNotify, n_failed, n_errbuf, n_pc, n_waiters, n_woken>>

\* bg_task: process returned an error: it is latched and notify_waiters()
\* calls the waker of every registered waiter, all under the guard
n_bg_err ==
    /\ n_bg = "polling"
    /\ n_errbuf' = TRUE
    /\ n_failed' = TRUE
    /\ n_woken' = n_woken \cup n_waiters
    /\ n_waiters' = {}
    /\ n_mutex' = Free
    /\ n_bg' = "finished"
    /\ UNCHANGED <<notNotify, n_pc>>

InitNotify ==
    /\ n_mutex = Free
    /\ n_failed = FALSE
    /\ n_errbuf = FALSE
    /\ n_bg = "idle"
    /\ n_pc = [o \in Obs |-> "start"]
    /\ n_waiters = {}
    /\ n_woken = {}
    /\ OthersIdle("SpecNotify")

NextNotify ==
    \/ \E o \in Obs : n_lock(o)
    \/ \E o \in Obs : n_check(o)
    \/ \E o \in Obs : n_register(o)
    \/ \E o \in Obs : n_wake(o)
    \/ \E o \in Obs : n_spurious(o)
    \/ n_bg_lock
    \/ n_bg_ok
    \/ n_bg_err

\* the runtime polls a task that was spawned or woken, and a thread that
\* waits for the mutex gets it once it is free; nothing obliges the driver
\* to fail or a task to be polled without a wakeup
SpecNotify ==
    /\ InitNotify /\ [][NextNotify]_vars
    /\ \A o \in Obs : SF_vars(n_lock(o)) /\ WF_vars(n_check(o)) /\ WF_vars(n_register(o))
                        /\ WF_vars(n_wake(o))
    /\ WF_vars(n_bg_ok)

----------------------------------------------------------------------------
(* TimeoutStream over an inner stream (src/src/timeout_stream.rs).  Time   *)
(* is a clock that ticks; a Timeout is its deadline; the inner stream is   *)
(* the queue of the results it has ready, <<"item" or "err", n>>.          *)

\* Ok(Async::Ready(item)) of line 96
on_item(e) == <<"Item", e>>

on_stream_error_as_end(e) == <<"End", 0>>

\* Err(e) => Err(TimeoutStreamError::StreamError(e))
on_stream_error(e) == <<"StreamError", e>>

reset_timer_keeps_deadline(timer, now, d) == IF timer = <<>> THEN <<now + d>> ELSE timer

\* TimeoutStream::reset_timer, when Timeout::new succeeds
reset_timer(timer, now, d) == <<now + d>>

\* the inner stream gets a result ready
t_produce ==
    /\ t_produced < MaxItems
    /\ ~t_innerDone
    /\ t_produced' = t_produced + 1
    /\ \E k \in {"item", "err"} :
          /\ t_inner' = Append(t_inner, <<k, t_produced + 1>>)
          /\ IF k = "item"
                THEN /\ t_lastProd' = <<t_now>>
                     /\ t_gapsShort' = (t_gapsShort /\ (t_lastProd # <<>> =>
                                                           t_now - t_lastProd[1] < t_d))
                     /\ t_cutShort' = (t_cutShort \/ (t_timedOut /\ t_gapsShort'))
                ELSE UNCHANGED <<t_lastProd, t_gapsShort, t_cutShort>>
    /\ UNCHANGED <<notTimeout, t_d, t_now, t_innerDone, t_timer, t_timerOk, t_base, t_out,
                   t_timedOut, t_itemAfterEnd, t_earlyEnd, t_missedEnd>>

\* the inner stream ends
t_inner_ends ==
    /\ ~t_innerDone
    /\ t_innerDone' = TRUE
    /\ UNCHANGED <<notTimeout, t_d, t_now, t_inner, t_produced, t_timer, t_timerOk, t_base,
                   t_out, t_lastProd, t_gapsShort, t_cutShort, t_timedOut, t_itemAfterEnd,
                   t_earlyEnd, t_missedEnd>>

\* time passes
t_tick ==
    /\ t_now < MaxTime
    /\ t_now' = t_now + 1
    /\ UNCHANGED <<notTimeout, t_d, t_inner, t_innerDone, t_produced, t_timer, t_timerOk,
                   t_base, t_out, t_lastProd, t_gapsShort, t_cutShort, t_timedOut,
                   t_itemAfterEnd, t_earlyEnd, t_missedEnd>>

\* the reactor goes away: Timeout::new and Timeout::poll fail from now on
t_reactor_gone ==
    /\ t_timerOk
    /\ t_timerOk' = FALSE
    /\ UNCHANGED <<notTimeout, t_d, t_now, t_inner, t_innerDone, t_produced, t_timer, t_base,
                   t_out, t_lastProd, t_gapsShort, t_cutShort, t_timedOut, t_itemAfterEnd,
                   t_earlyEnd, t_missedEnd>>

\* what self.stream.poll() returns
inner_poll ==
    IF t_inner # <<>> THEN Head(t_inner)
    ELSE IF t_innerDone THEN <<"end", 0>> ELSE <<"notready", 0>>

\* TimeoutStream::poll: <<output, timer afterwards>>
TimeoutStream_poll_result ==
    LET r == inner_poll IN
    CASE r[1] = "end" -> <<<<"End", 0>>, t_timer>>
      [] r[1] = "item" ->
            \* self.reset_timer()?
            IF t_timerOk THEN <<on_item(r[2]), reset_timer(t_timer, t_now, t_d)>>
                         ELSE <<<<"TimeoutError", 0>>, t_timer>>
      [] r[1] = "err" -> <<on_stream_error(r[2]), t_timer>>
      [] r[1] = "notready" ->
            \* self.get_timer()?.poll()
            IF ~t_timerOk THEN <<<<"TimeoutError", 0>>, t_timer>>
            ELSE LET timer == IF t_timer = <<>> THEN reset_timer(t_timer, t_now, t_d)
                                                ELSE t_timer
                 IN  IF t_now >= timer[1] THEN <<<<"TimedOut", 0>>, timer>>
                                          ELSE <<<<"NotReady", 0>>, timer>>

t_poll ==
    LET r      == inner_poll
        res    == TimeoutStream_poll_result
        out    == res[1]
        \* when the stream last emitted an item or, before that, began to wait
        base   == IF out[1] = "Item" THEN <<t_now>>
                  ELSE IF t_base = <<>> /\ out[1] \in {"NotReady", "TimedOut"} THEN <<t_now>>
                  ELSE t_base
        expired == base # <<>> /\ t_now >= base[1] + t_d
    IN  /\ t_timer' = res[2]
        /\ t_base' = base
        /\ t_inner' = (IF t_inner # <<>> THEN Tail(t_inner) ELSE t_inner)
        /\ t_out' = (IF r[1] \in {"item", "err"}
                        THEN Append(t_out, <<r[1], r[2], out[1], out[2], t_timerOk>>)
                        ELSE t_out)
        /\ t_timedOut' = (t_timedOut \/ out[1] = "TimedOut")
        /\ t_itemAfterEnd' = (t_itemAfterEnd \/ (t_timedOut /\ out[1] = "Item"))
        /\ t_earlyEnd' = (t_earlyEnd \/ (out[1] = "TimedOut" /\ ~expired))
        /\ t_missedEnd' = (t_missedEnd \/ (r[1] = "notready" /\ t_timerOk /\ expired
                                            /\ out[1] # "TimedOut"))
        /\ UNCHANGED <<notTimeout, t_d, t_now, t_innerDone, t_produced, t_timerOk, t_lastProd,
                       t_gapsShort, t_cutShort>>

\* TimeoutStream::new(stream, duration)
InitTimeout ==
    /\ t_d \in 1..MaxDuration
    /\ t_now = 0
    /\ t_inner = <<>>
    /\ t_innerDone = FALSE
    /\ t_produced = 0
    /\ t_timer = <<>>
    /\ t_timerOk = TRUE
    /\ t_base = <<>>
    /\ t_out = <<>>
    /\ t_lastProd = <<>>
    /\ t_gapsShort = TRUE
    /\ t_cutShort = FALSE
    /\ t_timedOut = FALSE
    /\ t_itemAfterEnd = FALSE
    /\ t_earlyEnd = FALSE
    /\ t_missedEnd = FALSE
    /\ OthersIdle("SpecTimeout")

NextTimeout ==
    \/ t_produce
    \/ t_inner_ends
    \/ t_tick
    \/ t_reactor_gone
    \/ t_poll

SpecTimeout == InitTimeout /\ [][NextTimeout]_vars

----------------------------------------------------------------------------
(* The readiness adapter for Windows (src/src/evented/windows.rs): the     *)
(* task calls ReadProcessor::process, a thread runs select() on request.   *)

\* what a zero-timeout select() on the fd reports
w_select == w_data > 0

\* a message reaches the response channel and wakes the registered task
w_post ==
    /\ w_resp' = w_resp + 1
    /\ w_woken' = (w_woken \/ w_waker)
    /\ w_waker' = FALSE

\* the daemon writes a message to the socket
w_arrive ==
    /\ w_arrivals < MaxArrivals
    /\ w_arrivals' = w_arrivals + 1
    /\ w_data' = w_data + 1
    /\ UNCHANGED <<notWindows, w_pending, w_req, w_resp, w_thread, w_pc, w_waker, w_woken,
                   w_panicked>>

\* A poll_read_ready that sends its request without recording it.
w_poll_read_ready_forgets_request ==
    /\ w_pc = "idle"
    /\ ~w_panicked
    /\ IF ~w_pending /\ w_select
         THEN /\ w_pending' = TRUE
              /\ w_pc' = "drain"
              /\ w_woken' = FALSE
              /\ UNCHANGED <<w_req, w_resp, w_waker>>
         ELSE /\ w_req' = (IF ~w_pending THEN Append(w_req, "Poll") ELSE w_req)
              /\ IF w_resp > 0
                   THEN /\ w_resp' = w_resp - 1
                        /\ w_pending' = FALSE
                        /\ w_pc' = "drain"
                        /\ w_woken' = FALSE
                        /\ UNCHANGED w_waker
                   ELSE /\ UNCHANGED w_pending
                        /\ w_waker' = TRUE
                        /\ w_woken' = FALSE
                        /\ UNCHANGED <<w_resp, w_pc>>
    /\ UNCHANGED <<notWindows, w_data, w_arrivals, w_thread, w_panicked>>

\* Inner::poll_read_ready, called by process when the task is polled
w_poll_read_ready ==
    /\ w_pc = "idle"
    /\ ~w_panicked
    /\ IF ~w_pending /\ w_select
         THEN \* "poll read: local ready"
              /\ w_pending' = TRUE
              /\ w_pc' = "drain"
              /\ w_woken' = FALSE
              /\ UNCHANGED <<w_req, w_resp, w_waker>>
         ELSE /\ w_req' = (IF ~w_pending THEN Append(w_req, "Poll") ELSE w_req)
              /\ IF w_resp > 0
                   THEN /\ w_resp' = w_resp - 1
                        /\ w_pending' = FALSE
                        /\ w_pc' = "drain"
                        /\ w_woken' = FALSE
                        /\ UNCHANGED w_waker
                   ELSE /\ w_pending' = TRUE
                        /\ w_waker' = TRUE
                        /\ w_woken' = FALSE
                        /\ UNCHANGED <<w_resp, w_pc>>
    /\ UNCHANGED <<notWindows, w_data, w_arrivals, w_thread, w_panicked>>

\* while is_readable(self.fd)? { p()?; }
w_drain ==
    /\ w_pc = "drain"
    /\ IF w_select THEN w_data' = w_data - 1 /\ UNCHANGED w_pc
                   ELSE w_pc' = "clear" /\ UNCHANGED w_data
    /\ UNCHANGED <<notWindows, w_arrivals, w_pending, w_req, w_resp, w_thread, w_waker,
                   w_woken, w_panicked>>

\* Inner::clear_read_ready
w_clear_read_ready ==
    /\ w_pc = "clear"
    /\ w_pc' = "idle"
    /\ IF w_resp > 0
         THEN \* "was ready": take the response, register, send it again
              IF ~w_pending \/ w_resp > 1
                THEN /\ w_panicked' = TRUE
                     /\ w_resp' = w_resp - 1
                     /\ UNCHANGED <<w_pending, w_req, w_waker, w_woken>>
                ELSE /\ w_woken' = TRUE
                     /\ w_waker' = FALSE
                     /\ UNCHANGED <<w_pending, w_req, w_resp, w_panicked>>
         ELSE IF w_pending
                THEN \* "already on the way"
                     /\ w_waker' = TRUE
                     /\ UNCHANGED <<w_pending, w_req, w_resp, w_woken, w_panicked>>
                ELSE /\ w_pending' = TRUE
                     /\ IF w_select
                          THEN /\ w_resp' = w_resp + 1
                               /\ w_woken' = TRUE
                               /\ w_waker' = FALSE
                               /\ UNCHANGED w_req
                          ELSE /\ w_req' = Append(w_req, "Poll")
                               /\ w_waker' = TRUE
                               /\ UNCHANGED <<w_resp, w_woken>>
                     /\ UNCHANGED w_panicked
    /\ UNCHANGED <<notWindows, w_data, w_arrivals, w_thread>>

\* the select thread takes a request
w_thread_recv ==
    /\ w_thread = "waiting"
    /\ w_req # <<>>
    /\ w_req' = Tail(w_req)
    /\ w_thread' = (IF Head(w_req) = "Poll" THEN "selecting" ELSE "exited")
    /\ UNCHANGED <<notWindows, w_data, w_arrivals, w_pending, w_resp, w_pc, w_waker, w_woken,
                   w_panicked>>

\* the select of the thread sees the fd readable: it posts a response
w_thread_select ==
    /\ w_thread = "selecting"
    /\ w_select
    /\ IF w_pc = "dropped" THEN UNCHANGED <<w_resp, w_waker, w_woken>> ELSE w_post
    /\ w_thread' = "waiting"
    /\ UNCHANGED <<notWindows, w_data, w_arrivals, w_pending, w_req, w_pc, w_panicked>>

\* A thread that drops the request its try_recv found and selects again.
w_thread_timeout_ignores_close ==
    /\ w_thread = "selecting"
    /\ ~w_select
    /\ w_req # <<>>
    /\ w_req' = Tail(w_req)
    /\ UNCHANGED <<notWindows, w_data, w_arrivals, w_pending, w_resp, w_thread, w_pc, w_waker,
                   w_woken, w_panicked>>

\* the select of the thread times out and try_recv finds a request: Close
\* ends the thread, Poll is unreachable!()
w_thread_timeout ==
    /\ w_thread = "selecting"
    /\ ~w_select
    /\ w_req # <<>>
    /\ w_req' = Tail(w_req)
    /\ w_thread' = "exited"
    /\ w_panicked' = (w_panicked \/ Head(w_req) = "Poll")
    /\ UNCHANGED <<notWindows, w_data, w_arrivals, w_pending, w_resp, w_pc, w_waker, w_woken>>

\* Drop for PollReadFd: send Close, which waits for room in the channel
w_drop ==
    /\ w_pc = "idle"
    /\ w_req = <<>>
    /\ w_req' = <<"Close">>
    /\ w_pc' = "dropped"
    /\ UNCHANGED <<notWindows, w_data, w_arrivals, w_pending, w_resp, w_thread, w_waker,
                   w_woken, w_panicked>>

\* PollReadFd::new; the task is polled once when it is spawned
InitWindows ==
    /\ w_data = 0
    /\ w_arrivals = 0
    /\ w_pending = FALSE
    /\ w_req = <<>>
    /\ w_resp = 0
    /\ w_thread = "waiting"
    /\ w_pc = "idle"
    /\ w_waker = FALSE
    /\ w_woken = TRUE
    /\ w_panicked = FALSE
    /\ OthersIdle("SpecWindows")

NextWindows ==
    \/ w_arrive
    \/ w_poll_read_ready
    \/ w_drain
    \/ w_clear_read_ready
    \/ w_thread_recv
    \/ w_thread_select
    \/ w_thread_timeout
    \/ w_drop

\* the thread runs; process runs to its end; a woken task is polled
SpecWindows ==
    /\ InitWindows /\ [][NextWindows]_vars
    /\ WF_vars(w_thread_recv) /\ WF_vars(w_thread_select) /\ WF_vars(w_thread_timeout)
    /\ WF_vars(w_drain) /\ WF_vars(w_clear_read_ready)
    /\ WF_vars(w_woken /\ w_poll_read_ready)

----------------------------------------------------------------------------
(* The readiness adapter for unix (src/src/evented/unix.rs): what its      *)
(* functions return for each outcome of poll() and of the reactor.         *)

\* errno of a failed poll()
Errnos == {"EINTR", "EINVAL", "ENOMEM"}

\* is_readable: what the loop returns for a poll() that returned r, with
\* errno e other than EINTR when r is -1
is_readable_return(r, e) ==
    IF r = 0 THEN "Ok(false)"
    ELSE IF r = 1 THEN "Ok(true)"
    ELSE "Ok(false)"

\* one libc::poll(&mut fds, 1, 0) of the loop in is_readable
u_poll ==
    /\ Len(u_log) < MaxCalls
    /\ \E r \in {0, 1, -1} : \E e \in Errnos :
          IF r = -1 /\ e = "EINTR"
            THEN \* continue
                 /\ u_eintr < MaxRetries
                 /\ u_eintr' = u_eintr + 1
                 /\ UNCHANGED u_log
            ELSE /\ u_eintr' = 0
                 /\ u_log' = Append(u_log, <<"is_readable", r, IF r = -1 THEN e ELSE "",
                                             is_readable_return(r, e)>>)
    /\ UNCHANGED notUnix

\* PollReadFd::poll_read_ready over PollEvented::poll_read_ready
u_poll_read_ready ==
    /\ Len(u_log) < MaxCalls
    /\ u_eintr = 0
    /\ \E m \in {"pending", "readable", "other", "err"} :
          u_log' = Append(u_log, <<"poll_read_ready", 0, IF m = "err" THEN "io" ELSE "",
                                   CASE m = "pending" -> "Pending"
                                     [] m = "readable" -> "Ready(Ok)"
                                     [] m = "other" -> "Pending"
                                     [] m = "err" -> "Err">>)
    /\ UNCHANGED <<notUnix, u_eintr>>

\* PollReadFd::clear_read_ready over PollEvented::clear_read_ready
u_clear_read_ready ==
    /\ Len(u_log) < MaxCalls
    /\ u_eintr = 0
    /\ \E m \in {"ok", "err"} :
          u_log' = Append(u_log, <<"clear_read_ready", 0, IF m = "err" THEN "io" ELSE "",
                                   IF m = "err" THEN "Err" ELSE "Ok">>)
    /\ UNCHANGED <<notUnix, u_eintr>>

InitUnix ==
    /\ u_log = <<>>
    /\ u_eintr = 0
    /\ OthersIdle("SpecUnix")

NextUnix ==
    \/ u_poll
    \/ u_poll_read_ready
    \/ u_clear_read_ready

SpecUnix == InitUnix /\ [][NextUnix]_vars

----------------------------------------------------------------------------
(* The RDATA length of the record operations (src/src/inner.rs,            *)
(* src/src/service/mod.rs): every operation checks it the same way before  *)
(* its FFI call.                                                           *)

\* rdata.len() of the calls: around the 16 bit limit
RdataLens == {0, 1, U16Limit - 1, U16Limit, U16Limit + 1}

\* assert!(rd_len < (1 << 16)); let rd_len = rd_len as u16; ... the FFI call
rd_len_checked(len) ==
    IF len < U16Limit THEN <<"ffi", len % U16Limit>> ELSE <<"panic", 0>>

\* the operation `op` is called with RDATA of `len` bytes
r_call(op, len) ==
    /\ Len(r_log) < MaxSubmits
    /\ r_log' = Append(r_log, <<op, len>> \o rd_len_checked(len))
    /\ UNCHANGED notRdata

\* SharedService::add_record
r_add_record == \E len \in RdataLens : r_call("add_record", len)

\* SharedService::register_record
r_register_record == \E len \in RdataLens : r_call("register_record", len)

\* DNSRecord::update_record
r_update_record == \E len \in RdataLens : r_call("update_record", len)

\* OwnedService::register with a TXT record
r_register == \E len \in RdataLens : r_call("register", len)

\* reconfirm_record
r_reconfirm_record == \E len \in RdataLens : r_call("reconfirm_record", len)

InitRdata ==
    /\ r_log = <<>>
    /\ OthersIdle("SpecRdata")

NextRdata ==
    \/ r_add_record
    \/ r_register_record
    \/ r_update_record
    \/ r_register
    \/ r_reconfirm_record

SpecRdata == InitRdata /\ [][NextRdata]_vars

----------------------------------------------------------------------------
(* TxtRecord (src/src/txt_record.rs): a Vec<u8> of chunks, each a length   *)
(* byte and that many bytes of `key` or `key=value`.  Bytes are numbers;   *)
(* Option is <<>> for None and <<x>> for Some(x).                          *)

\* b'='
EQ == 61

\* n bytes b
Rep(b, n) == [i \in 1..n |-> b]

\* the keys and values the calls are made with: valid and invalid keys,
\* values up to the entry limit
TxtKeys == {<<>>, <<97>>, <<98>>, <<EQ>>, <<31>>}
TxtValues == {<<>>, <<EQ>>, Rep(120, MaxEntryLen - 2), Rep(120, MaxEntryLen - 1)}
OptTxtValues == {<<>>} \cup {<<v>> : v \in TxtValues}

\* byte strings handed to parse: chunks with good and bad length bytes
WireInputs == UNION {[1..n -> {0, 1, 2, EQ}] : n \in 0..MaxWireLen}

\* entry.iter().position(|&b| b == b'=')
position_eq(entry) ==
    IF \E i \in 1..Len(entry) : entry[i] = EQ
      THEN <<CHOOSE i \in 1..Len(entry) : entry[i] = EQ /\ \A j \in 1..(i - 1) : entry[j] # EQ>>
      ELSE <<>>

\* the (key, value) of one chunk, as both iterators split it
split_entry(entry) ==
    LET p == position_eq(entry) IN
    IF p # <<>> THEN <<SubSeq(entry, 1, p[1] - 1), <<SubSeq(entry, p[1] + 1, Len(entry))>>>>
                ELSE <<entry, <<>>>>

\* TxtRecordIter: all (key, value) pairs
RECURSIVE TxtRecordIter(_)
TxtRecordIter(data) ==
    IF data = <<>> THEN <<>>
    ELSE LET len == data[1] IN
         <<split_entry(SubSeq(data, 2, 1 + len))>>
            \o TxtRecordIter(SubSeq(data, len + 2, Len(data)))

\* PositionKeyIter(...).find: <<start, end>> (first byte, last byte) of the
\* first chunk with this key, looking from pos on
RECURSIVE position_key(_, _, _)
position_key(data, pos, key) ==
    IF pos > Len(data) THEN <<>>
    ELSE LET len == data[pos] IN
         IF split_entry(SubSeq(data, pos + 1, pos + len))[1] = key
           THEN <<pos, pos + len>>
           ELSE position_key(data, pos + len + 1, key)

\* TxtRecord::get
get(data, key) ==
    LET es == TxtRecordIter(data) IN
    IF \E i \in 1..Len(es) : es[i][1] = key
      THEN <<es[CHOOSE i \in 1..Len(es) : es[i][1] = key /\ \A j \in 1..(i - 1) : es[j][1] # key][2]>>
      ELSE <<>>

remove_nothing(data, key) == data

\* A remove that drains the entry but leaves its length byte.
remove_leaves_length(data, key) ==
    LET loc == position_key(data, 1, key) IN
    IF loc # <<>> THEN SubSeq(data, 1, loc[1]) \o SubSeq(data, loc[2] + 1, Len(data))
                  ELSE data

\* TxtRecord::remove
remove(data, key) ==
    LET loc == position_key(data, 1, key) IN
    IF loc # <<>> THEN SubSeq(data, 1, loc[1] - 1) \o SubSeq(data, loc[2] + 1, Len(data))
                  ELSE data

set_without_separator(data, key, value) ==
    <<"Ok", data \o <<Len(key)>> \o key>>

\* A set that removes the old entry before it checks the new one.
set_removes_first(data, key, value) ==
    IF \E i \in 1..Len(key) : key[i] = EQ \/ key[i] < 32 \/ key[i] > 126
      THEN <<"InvalidKey", remove(data, key)>>
    ELSE LET entry_len == Len(key) + (IF value # <<>> THEN Len(value[1]) + 1 ELSE 0) IN
         IF entry_len > MaxEntryLen THEN <<"EntryTooLong", remove(data, key)>>
         ELSE <<"Ok", remove(data, key) \o <<entry_len % 256>> \o key
                        \o (IF value # <<>> THEN <<EQ>> \o value[1] ELSE <<>>)>>

\* TxtRecord::set: <<result, the buffer afterwards>>
set(data, key, value) ==
    IF \E i \in 1..Len(key) : key[i] = EQ \/ key[i] < 32 \/ key[i] > 126
      THEN <<"InvalidKey", data>>
    ELSE LET entry_len == Len(key) + (IF value # <<>> THEN Len(value[1]) + 1 ELSE 0) IN
         IF entry_len > MaxEntryLen THEN <<"EntryTooLong", data>>
         ELSE <<"Ok", remove(data, key) \o <<entry_len % 256>> \o key
                        \o (IF value # <<>> THEN <<EQ>> \o value[1] ELSE <<>>)>>

\* TxtRecord::data
data_of(data) == data

rdata_as_data(data) == data

\* TxtRecord::rdata
rdata(data) == IF data = <<>> THEN <<0>> ELSE data

\* the loop of parse_vec: every chunk ends within the data
RECURSIVE chunks_fit(_, _)
chunks_fit(data, pos) ==
    IF pos > Len(data) THEN TRUE
    ELSE LET new_pos == pos + 1 + data[pos] IN
         IF new_pos - 1 > Len(data) THEN FALSE ELSE chunks_fit(data, new_pos)

\* TxtRecord::parse_vec: Some(buffer) or None
parse_vec(data) ==
    IF Len(data) = 1 /\ data[1] = 0 THEN <<<<>>>>
    ELSE IF chunks_fit(data, 1) THEN <<data>> ELSE <<>>

\* r.set(key, value)
x_set ==
    \E key \in TxtKeys : \E value \in OptTxtValues :
       LET res == set(x_data, key, value) IN
       /\ x_data' = res[2]
       /\ x_last' = <<"set", key, value, x_data, res[1]>>
       /\ UNCHANGED notTxt

\* r.remove(key)
x_remove ==
    \E key \in TxtKeys :
       /\ x_data' = remove(x_data, key)
       /\ x_last' = <<"remove", key, <<>>, x_data, "Ok">>
       /\ UNCHANGED notTxt

\* r.clear()
x_clear ==
    /\ x_data' = <<>>
    /\ x_last' = <<"clear", <<>>, <<>>, x_data, "Ok">>
    /\ UNCHANGED notTxt

\* TxtRecord::parse(bytes)
x_parse ==
    \E bytes \in WireInputs :
       /\ x_last' = <<"parse", bytes, parse_vec(bytes), <<>>, "Ok">>
       /\ UNCHANGED <<notTxt, x_data>>

\* TxtRecord::new()
InitTxt ==
    /\ x_data = <<>>
    /\ x_last = <<"new", <<>>, <<>>, <<>>, "Ok">>
    /\ OthersIdle("SpecTxt")

NextTxt ==
    \/ x_set
    \/ x_remove
    \/ x_clear
    \/ x_parse

SpecTxt == InitTxt /\ [][NextTxt]_vars

----------------------------------------------------------------------------
(* Interface selectors (src/src/interface.rs, src/src/interface_index.rs). *)
(* A selector is <<variant, index>>, the index 0 but for Index.            *)

\* the raw values converted: the special ones and their neighbours
InterfaceRaws == {0, 1, 2, INTERFACE_INDEX_P2P - 1, INTERFACE_INDEX_P2P,
                  INTERFACE_INDEX_UNICAST, INTERFACE_INDEX_LOCAL_ONLY}

\* Interface::from_raw
Interface_from_raw(rawv) ==
    CASE rawv = INTERFACE_INDEX_ANY -> <<"Any", 0>>
      [] rawv = INTERFACE_INDEX_LOCAL_ONLY -> <<"LocalOnly", 0>>
      [] rawv = INTERFACE_INDEX_UNICAST -> <<"Unicast", 0>>
      [] rawv = INTERFACE_INDEX_P2P -> <<"PeerToPeer", 0>>
      [] OTHER -> <<"Index", rawv>>

\* Interface::into_raw
Interface_into_raw(sel) ==
    CASE sel[1] = "Any" -> INTERFACE_INDEX_ANY
      [] sel[1] = "Index" -> sel[2]
      [] sel[1] = "LocalOnly" -> INTERFACE_INDEX_LOCAL_ONLY
      [] sel[1] = "Unicast" -> INTERFACE_INDEX_UNICAST
      [] sel[1] = "PeerToPeer" -> INTERFACE_INDEX_P2P

\* InterfaceIndex::from_raw of interface_index.rs
InterfaceIndex_from_raw(rawv) ==
    CASE rawv = INTERFACE_INDEX_ANY -> <<"Any", 0>>
      [] rawv = INTERFACE_INDEX_LOCAL_ONLY -> <<"LocalOnly", 0>>
      [] OTHER -> <<"Index", rawv>>

\* InterfaceIndex::as_raw of interface_index.rs
InterfaceIndex_as_raw(sel) ==
    CASE sel[1] = "Any" -> INTERFACE_INDEX_ANY
      [] sel[1] = "LocalOnly" -> INTERFACE_INDEX_LOCAL_ONLY
      [] sel[1] = "Index" -> sel[2]

\* pub const INTERFACE_ANY
INTERFACE_ANY == <<"Any", 0>>

\* pub const INTERFACE_LOCAL_ONLY
INTERFACE_LOCAL_ONLY == <<"Any", 0>>

\* Interface::from_raw(raw).into_raw()
i_from_raw ==
    /\ Len(i_log) < MaxConversions
    /\ \E rawv \in InterfaceRaws :
          i_log' = Append(i_log, <<"Interface::from_raw", rawv, Interface_from_raw(rawv),
                                   Interface_into_raw(Interface_from_raw(rawv))>>)
    /\ UNCHANGED notInterface

\* InterfaceIndex::from_raw(raw).as_raw()
i_index_from_raw ==
    /\ Len(i_log) < MaxConversions
    /\ \E rawv \in InterfaceRaws :
          i_log' = Append(i_log, <<"InterfaceIndex::from_raw", rawv, InterfaceIndex_from_raw(rawv),
                                   InterfaceIndex_as_raw(InterfaceIndex_from_raw(rawv))>>)
    /\ UNCHANGED notInterface

\* INTERFACE_ANY.as_raw() and INTERFACE_LOCAL_ONLY.as_raw()
i_constant ==
    /\ Len(i_log) < MaxConversions
    /\ \/ i_log' = Append(i_log, <<"INTERFACE_ANY", 0, INTERFACE_ANY,
                                   InterfaceIndex_as_raw(INTERFACE_ANY)>>)
       \/ i_log' = Append(i_log, <<"INTERFACE_LOCAL_ONLY", 0, INTERFACE_LOCAL_ONLY,
                                   InterfaceIndex_as_raw(INTERFACE_LOCAL_ONLY)>>)
    /\ UNCHANGED notInterface

InitInterface ==
    /\ i_log = <<>>
    /\ OthersIdle("SpecInterface")

NextInterface ==
    \/ i_from_raw
    \/ i_index_from_raw
    \/ i_constant

SpecInterface == InitInterface /\ [][NextInterface]_vars

----------------------------------------------------------------------------
(* The flag sets of flag_mapping! (src/src/flags_macro.rs) for             *)
(* EnumeratedFlags (src/src/service/enumerate_domains.rs): a set is a u8   *)
(* with bit `flag as u8` per flag, a word is the DNSServiceFlags of the C  *)
(* API.                                                                    *)

\* bit i of n
Bit(n, i) == (n \div (2 ^ i)) % 2 = 1

\* a & b and a | b over the bits 0..15
RECURSIVE BitAndFrom(_, _, _)
BitAndFrom(a, b, i) ==
    IF i > 15 THEN 0
    ELSE (IF Bit(a, i) /\ Bit(b, i) THEN 2 ^ i ELSE 0) + BitAndFrom(a, b, i + 1)

BitAnd(a, b) == BitAndFrom(a, b, 0)

RECURSIVE BitOrFrom(_, _, _)
BitOrFrom(a, b, i) ==
    IF i > 15 THEN 0
    ELSE (IF Bit(a, i) \/ Bit(b, i) THEN 2 ^ i ELSE 0) + BitOrFrom(a, b, i + 1)

BitOr(a, b) == BitOrFrom(a, b, 0)

\* enum EnumeratedFlag and its flag_mapping!: <<flag as u8, value>>
EnumeratedFlag ==
    [MoreComing |-> <<0, FLAGS_MORE_COMING>>, Add |-> <<1, FLAGS_ADD>>,
     Default |-> <<2, FLAGS_DEFAULT>>]

\* the cases in the order of the macro
EnumeratedCases == <<"MoreComing", "Add", "Default">>

\* the words converted
FlagWords == 0..(2 ^ MaxFlagBits - 1)

\* From<$flags> for $flagset
flagset_from(flag) == 2 ^ EnumeratedFlag[flag][1]

\* BitAnd<$flags> for $flagset
flagset_has(fs, flag) == BitAnd(fs, flagset_from(flag)) # 0

\* Into<$ty> for $flagset
RECURSIVE flagset_into(_, _)
flagset_into(fs, i) ==
    IF i > Len(EnumeratedCases) THEN 0
    ELSE BitOr(IF flagset_has(fs, EnumeratedCases[i]) THEN EnumeratedFlag[EnumeratedCases[i]][2]
                                                      ELSE 0,
               flagset_into(fs, i + 1))

flagset_of_keeps_bits(value, i) == value

\* From<$ty> for $flagset
RECURSIVE flagset_of(_, _)
flagset_of(value, i) ==
    IF i > Len(EnumeratedCases) THEN 0
    ELSE BitOr(IF BitAnd(value, EnumeratedFlag[EnumeratedCases[i]][2]) # 0
                 THEN flagset_from(EnumeratedCases[i]) ELSE 0,
               flagset_of(value, i + 1))

\* EnumeratedFlags::from(flag) converted to a word and back
f_into ==
    /\ Len(f_log) < MaxConversions
    /\ \E flag \in DOMAIN EnumeratedFlag :
          LET word == flagset_into(flagset_from(flag), 1) IN
          f_log' = Append(f_log, <<"into", flag, word, flagset_of(word, 1)>>)
    /\ UNCHANGED notFlags

\* EnumeratedFlags::from(word) and the word of it
f_from ==
    /\ Len(f_log) < MaxConversions
    /\ \E word \in FlagWords :
          f_log' = Append(f_log, <<"from", "", word, flagset_of(word, 1)>>)
    /\ UNCHANGED notFlags

InitFlags ==
    /\ f_log = <<>>
    /\ OthersIdle("SpecFlags")

NextFlags ==
    \/ f_into
    \/ f_from

SpecFlags == InitFlags /\ [][NextFlags]_vars

----------------------------------------------------------------------------
(* Error::from over the codes of the C API (src/src/error.rs,              *)
(* src/src/ffi.rs).                                                        *)

\* c_api_enum! DNSServiceError: the name of each code
DNSServiceError ==
    [c \in -65558..-65537 \ {-65550} |->
        CASE c = -65537 -> "Unknown"           [] c = -65538 -> "NoSuchName"
          [] c = -65539 -> "NoMemory"          [] c = -65540 -> "BadParam"
          [] c = -65541 -> "BadReference"      [] c = -65542 -> "BadState"
          [] c = -65543 -> "BadFlags"          [] c = -65544 -> "Unsupported"
          [] c = -65545 -> "NotInitialized"    [] c = -65546 -> "NoCache"
          [] c = -65547 -> "AlreadyRegistered" [] c = -65548 -> "NameConflict"
          [] c = -65549 -> "Invalid"           [] c = -65551 -> "Incompatible"
          [] c = -65552 -> "BadInterfaceIndex" [] c = -65553 -> "Refused"
          [] c = -65554 -> "NoSuchRecord"      [] c = -65555 -> "NoAuth"
          [] c = -65556 -> "NoSuchKey"         [] c = -65557 -> "NoValue"
          [] c = -65558 -> "BufferTooSmall"]

\* the codes converted: every code of the two enums, the codes between
\* them and codes of neither
ErrorCodes == {-1, 0, 1} \cup (-65573..-65536) \cup (-65793..-65789)

\* Error::from with the variant: <<"Ok", "", 0>>, <<"KnownError", name, 0>>
\* or <<"UnknownError", "", code>>
Error_from_value(value) ==
    IF value \in DNSServiceNoError THEN <<"Ok", "", 0>>
    ELSE IF value \in DOMAIN DNSServiceError THEN <<"KnownError", DNSServiceError[value], 0>>
    ELSE <<"UnknownError", "", value>>

\* Error::from(value)
e_from ==
    /\ Len(e_log) < MaxConversions
    /\ \E value \in ErrorCodes : e_log' = Append(e_log, <<value>> \o Error_from_value(value))
    /\ UNCHANGED notError

InitError ==
    /\ e_log = <<>>
    /\ OthersIdle("SpecError")

NextError == e_from

SpecError == InitError /\ [][NextError]_vars

----------------------------------------------------------------------------
(* Host address resolution (src/src/service/resolve_host.rs): two record   *)
(* queries, for AAAA and for A, filtered by decode_aaaa and decode_a and   *)
(* merged by select.  An answer is <<class, type, rdata length,            *)
(* interface>>, or <<"err">> for an error of the query.                    *)

\* the answers of a query: right and wrong class, type and length
Answers ==
    {<<c, t, l, i>> : c \in {Class_IN, 3}, t \in {Type_A, Type_AAAA}, l \in {0, 4, 16},
                      i \in {INTERFACE_INDEX_ANY, INTERFACE_INDEX_LOCAL_ONLY, 2}}

\* Interface::scope_id of an interface given as raw value
scope_id(i) == IF Interface_from_raw(i)[1] = "Index" THEN Interface_from_raw(i)[2] ELSE 0

decode_a_any_length(a) ==
    IF a[1] = Class_IN /\ a[2] = Type_A THEN <<scope_id(a[4])>> ELSE <<>>

\* decode_a: Some(scope id of the address) or None
decode_a(a) ==
    IF a[1] = Class_IN /\ a[2] = Type_A /\ a[3] = 4 THEN <<scope_id(a[4])>> ELSE <<>>

\* decode_aaaa
decode_aaaa(a) ==
    IF a[1] = Class_IN /\ a[2] = Type_AAAA /\ a[3] = 16 THEN <<scope_id(a[4])>> ELSE <<>>

\* the query for AAAA or for A gets an answer or fails
h_answer ==
    /\ h_answers < MaxAnswers
    /\ h_answers' = h_answers + 1
    /\ \E a \in Answers \cup {<<"err">>} :
          \/ h_v6' = Append(h_v6, a) /\ UNCHANGED h_v4
          \/ h_v4' = Append(h_v4, a) /\ UNCHANGED h_v6
    /\ UNCHANGED <<notResolveHost, h_out, h_dropped>>

\* one result of a filtered query reaches the merged stream, or is dropped
h_filtered(query, a, decoded) ==
    IF a = <<"err">> THEN h_out' = Append(h_out, <<"err", query>>) /\ UNCHANGED h_dropped
    ELSE IF decoded # <<>>
           THEN h_out' = Append(h_out, <<"item", query, a, decoded[1]>>) /\ UNCHANGED h_dropped
           ELSE h_dropped' = Append(h_dropped, <<query, a>>) /\ UNCHANGED h_out

\* ResolveHost::poll_next: select polls the AAAA query
h_poll_v6 ==
    /\ h_v6 # <<>>
    /\ h_v6' = Tail(h_v6)
    /\ h_filtered(Type_AAAA, Head(h_v6), IF Head(h_v6) = <<"err">> THEN <<>>
                                          ELSE decode_aaaa(Head(h_v6)))
    /\ UNCHANGED <<notResolveHost, h_v4, h_answers>>

\* ResolveHost::poll_next: select polls the A query
h_poll_v4 ==
    /\ h_v4 # <<>>
    /\ h_v4' = Tail(h_v4)
    /\ h_filtered(Type_A, Head(h_v4), IF Head(h_v4) = <<"err">> THEN <<>>
                                       ELSE decode_a(Head(h_v4)))
    /\ UNCHANGED <<notResolveHost, h_v6, h_answers>>

\* resolve_host_extended
InitResolveHost ==
    /\ h_v6 = <<>>
    /\ h_v4 = <<>>
    /\ h_out = <<>>
    /\ h_dropped = <<>>
    /\ h_answers = 0
    /\ OthersIdle("SpecResolveHost")

NextResolveHost ==
    \/ h_answer
    \/ h_poll_v6
    \/ h_poll_v4

SpecResolveHost == InitResolveHost /\ [][NextResolveHost]_vars

----------------------------------------------------------------------------
(* Driving the handle when its socket is readable: ReadProcessor::process  *)
(* (src/src/evented/windows.rs) and EventedDNSService::poll                *)
(* (src/src/evented/mod.rs).  An entry of p_log is one finished call:      *)
(* <<function, readiness observed, calls of the closure, readiness         *)
(* cleared, messages unread at the end, result>>.                          *)

\* the daemon writes a message to the socket
p_arrive ==
    /\ p_arrivals < MaxArrivals
    /\ p_arrivals' = p_arrivals + 1
    /\ p_data' = p_data + 1
    /\ UNCHANGED <<notProcess, p_pc, p_calls, p_log>>

\* process: match self.poll.poll_read_ready(cx)?
ReadProcessor_process ==
    /\ p_pc = "idle"
    /\ Len(p_log) < MaxCalls
    /\ \E o \in {"Pending", "Ready", "Err"} :
          IF o = "Ready"
            THEN /\ p_pc' = "loop"
                 /\ p_calls' = 0
                 /\ UNCHANGED p_log
            ELSE /\ p_log' = Append(p_log, <<"process", FALSE, 0, FALSE, p_data,
                                             IF o = "Err" THEN "ReadyErr" ELSE "Ok">>)
                 /\ UNCHANGED <<p_pc, p_calls>>
    /\ UNCHANGED <<notProcess, p_data, p_arrivals>>

\* process: one turn of while is_readable(self.fd)? { p()?; }, and
\* self.poll.clear_read_ready(cx)? after it.  The closure is
\* DNSServiceProcessResult, which reads k of the messages or fails.
ReadProcessor_loop ==
    /\ p_pc = "loop"
    /\ IF p_data > 0
         THEN \/ \E k \in 1..p_data :
                    /\ p_data' = p_data - k
                    /\ p_calls' = p_calls + 1
                    /\ UNCHANGED <<p_pc, p_log>>
              \/ /\ p_log' = Append(p_log, <<"process", TRUE, p_calls + 1, FALSE, p_data,
                                             "ClosureErr">>)
                 /\ p_pc' = "idle"
                 /\ p_calls' = 0
                 /\ UNCHANGED p_data
         ELSE /\ \E ok \in BOOLEAN :
                    p_log' = Append(p_log, <<"process", TRUE, p_calls, TRUE, p_data,
                                             IF ok THEN "Ok" ELSE "ClearErr">>)
              /\ p_pc' = "idle"
              /\ p_calls' = 0
              /\ UNCHANGED p_data
    /\ UNCHANGED <<notProcess, p_arrivals>>

\* EventedDNSService::poll: on Ready, process_result()? and need_read()
EventedDNSService_poll ==
    /\ p_pc = "idle"
    /\ Len(p_log) < MaxCalls
    /\ \/ /\ p_log' = Append(p_log, <<"poll", FALSE, 0, FALSE, p_data, "Ok">>)
          /\ UNCHANGED p_data
       \/ /\ p_log' = Append(p_log, <<"poll", TRUE, 1, FALSE, p_data, "ClosureErr">>)
          /\ UNCHANGED p_data
       \/ \E k \in 1..p_data :
             /\ p_data' = p_data - k
             /\ p_log' = Append(p_log, <<"poll", TRUE, 1, TRUE, p_data - k, "Ok">>)
    /\ UNCHANGED <<notProcess, p_arrivals, p_pc, p_calls>>

InitProcess ==
    /\ p_data = 0
    /\ p_arrivals = 0
    /\ p_pc = "idle"
    /\ p_calls = 0
    /\ p_log = <<>>
    /\ OthersIdle("SpecProcess")

NextProcess ==
    \/ p_arrive
    \/ ReadProcessor_process
    \/ ReadProcessor_loop
    \/ EventedDNSService_poll

SpecProcess == InitProcess /\ [][NextProcess]_vars

----------------------------------------------------------------------------
(* The socket of the native handle and the readiness source that borrows   *)
(* it (src/src/inner.rs OwnedService and share, src/src/evented/unix.rs,   *)
(* src/src/evented/windows.rs).  DNSServiceRefDeallocate closes the        *)
(* socket; fd_late collects what the adapter does with the fd after that.  *)

\* what the adapter does with the fd at a moment: late if the handle is gone
fd_touch(op) == IF fd_handle = "freed" THEN fd_late \cup {op} ELSE fd_late

\* ReadProcessor::process, called by the owner (OwnedService::poll_service)
\* or by the background task of share(): poll_read_ready, is_readable and
\* clear_read_ready on the fd.  On Windows it may send a Poll request.  An
\* error ends the background task, whose closure drops `processing`.
fd_process ==
    /\ fd_polls < MaxPolls
    /\ IF fd_path = "owned" THEN fd_owner = "alive" ELSE fd_bg = "running"
    /\ fd_polls' = fd_polls + 1
    /\ fd_late' = fd_touch("poll")
    /\ \E ok \in BOOLEAN : \E arm \in BOOLEAN :
          IF ok \/ fd_path = "owned"
            THEN /\ fd_req' = (IF arm /\ fd_thread = "waiting" /\ fd_req = <<>>
                                 THEN <<"Poll">> ELSE fd_req)
                 /\ UNCHANGED <<fd_bg, fd_reg>>
            ELSE /\ fd_req = <<>>
                 /\ fd_bg' = "finished"
                 /\ fd_reg' = FALSE
                 /\ fd_req' = (IF fd_platform = "windows" THEN <<"Close">> ELSE fd_req)
    /\ UNCHANGED <<notFd, fd_platform, fd_path, fd_handle, fd_owner, fd_thread>>

\* the select thread: recv_request.recv()
fd_thread_recv ==
    /\ fd_thread = "waiting"
    /\ fd_req # <<>>
    /\ fd_req' = Tail(fd_req)
    /\ fd_thread' = (IF Head(fd_req) = "Poll" THEN "selecting" ELSE "exited")
    /\ fd_late' = (IF Head(fd_req) = "Poll" THEN fd_touch("select") ELSE fd_late)
    /\ UNCHANGED <<notFd, fd_platform, fd_path, fd_handle, fd_owner, fd_bg, fd_reg, fd_polls>>

\* the select thread: its select returns.  Readable: it sends the response
\* and waits for a request.  Timeout: try_recv; Close ends the thread,
\* otherwise it calls select on the fd again.
fd_thread_select ==
    /\ fd_thread = "selecting"
    /\ \/ /\ fd_thread' = "waiting"
          /\ UNCHANGED <<fd_req, fd_late>>
       \/ /\ fd_req # <<>>
          /\ fd_req' = Tail(fd_req)
          /\ fd_thread' = "exited"
          /\ UNCHANGED fd_late
       \/ /\ fd_req = <<>>
          /\ fd_late' = fd_touch("select")
          /\ UNCHANGED <<fd_req, fd_thread>>
    /\ UNCHANGED <<notFd, fd_platform, fd_path, fd_handle, fd_owner, fd_bg, fd_reg, fd_polls>>

\* drop of OwnedService, first field: `handle` (DNSServiceRefDeallocate)
fd_drop_owned_handle ==
    /\ fd_path = "owned"
    /\ fd_owner = "alive"
    /\ fd_owner' = "dropping"
    /\ fd_handle' = "freed"
    /\ UNCHANGED <<notFd, fd_platform, fd_path, fd_bg, fd_reg, fd_thread, fd_req, fd_polls,
                   fd_late>>

\* drop of OwnedService, second field: `processing`.  Unix: the reactor
\* deregisters EventedFd; Windows: PollReadFd::drop sends Close.
fd_drop_owned_processing ==
    /\ fd_owner = "dropping"
    /\ fd_req = <<>>
    /\ fd_owner' = "dropped"
    /\ fd_reg' = FALSE
    /\ fd_late' = (IF fd_platform = "unix" THEN fd_touch("deregister") ELSE fd_late)
    /\ fd_req' = (IF fd_platform = "windows" THEN <<"Close">> ELSE fd_req)
    /\ UNCHANGED <<notFd, fd_platform, fd_path, fd_handle, fd_bg, fd_thread, fd_polls>>

\* drop of the last SharedService: `inner`, then `_bg_task_handle`, whose
\* AbortHandle aborts the background task.  A finished task holds nothing.
fd_drop_shared ==
    /\ fd_path = "shared"
    /\ fd_owner = "alive"
    /\ fd_owner' = "dropped"
    /\ IF fd_bg = "running"
         THEN fd_bg' = "aborted" /\ UNCHANGED fd_handle
         ELSE fd_handle' = "freed" /\ UNCHANGED fd_bg
    /\ UNCHANGED <<notFd, fd_platform, fd_path, fd_reg, fd_thread, fd_req, fd_polls, fd_late>>

\* the runtime drops the aborted task: the closure's captures `bg_inner`
\* (the last Arc of the handle) and `processing` drop in an order the
\* language leaves unspecified
fd_bg_dropped ==
    /\ fd_bg = "aborted"
    /\ fd_req = <<>>
    /\ fd_bg' = "dropped"
    /\ fd_handle' = "freed"
    /\ fd_reg' = FALSE
    /\ fd_req' = (IF fd_platform = "windows" THEN <<"Close">> ELSE fd_req)
    /\ \E order \in {"bg_inner, processing", "processing, bg_inner"} :
          fd_late' = (IF fd_platform = "unix" /\ order = "bg_inner, processing"
                        THEN fd_late \cup {"deregister"} ELSE fd_late)
    /\ UNCHANGED <<notFd, fd_platform, fd_path, fd_owner, fd_thread, fd_polls>>

\* OwnedService::new, or share() right after it
InitFd ==
    /\ fd_platform \in {"unix", "windows"}
    /\ fd_path \in {"owned", "shared"}
    /\ fd_handle = "live"
    /\ fd_owner = "alive"
    /\ fd_bg = (IF fd_path = "shared" THEN "running" ELSE "none")
    /\ fd_reg = (fd_platform = "unix")
    /\ fd_thread = (IF fd_platform = "windows" THEN "waiting" ELSE "none")
    /\ fd_req = <<>>
    /\ fd_polls = 0
    /\ fd_late = {}
    /\ OthersIdle("SpecFd")

NextFd ==
    \/ fd_process
    \/ fd_thread_recv
    \/ fd_thread_select
    \/ fd_drop_owned_handle
    \/ fd_drop_owned_processing
    \/ fd_drop_shared
    \/ fd_bg_dropped

SpecFd == InitFd /\ [][NextFd]_vars

----------------------------------------------------------------------------
(* mdns_ipc read_struct (src/mdns_ipc/src/reader.rs): a struct of rs_fixed *)
(* bytes of fixed-size fields, followed unless rs_exact by one             *)
(* zero-terminated string of rs_strlen bytes, is read from a stream that   *)
(* delivers its bytes one by one.  The task is polled when it was woken.   *)

\* bytes of the struct on the wire
rs_total == rs_fixed + (IF rs_exact THEN 0 ELSE rs_strlen + 1)

\* S::deserialize_size_hint(): Exact(n) or AtLeast(n), here n
deserialize_size_hint == rs_fixed + (IF rs_exact THEN 0 ELSE 1)

\* check_length(src, need) with `remaining` bytes left: 0 for Ok, or the
\* n of NeedMoreData(n)
check_length(remaining, need) == IF remaining < need THEN need - remaining ELSE 0

\* parse::<S> on the first `have` bytes of the wire: <<"Ok", 0>>,
\* <<"ExpectedEndOfFile", 0>> or <<"NeedMoreData", n>>; the string has its
\* zero at offset rs_strlen
parse(have) ==
    IF check_length(have, rs_fixed) > 0 THEN <<"NeedMoreData", check_length(have, rs_fixed)>>
    ELSE IF rs_exact
           THEN (IF rs_fixed < have THEN <<"ExpectedEndOfFile", 0>> ELSE <<"Ok", 0>>)
    ELSE IF have - rs_fixed < rs_strlen + 1 THEN <<"NeedMoreData", 1>>
    ELSE IF rs_total < have THEN <<"ExpectedEndOfFile", 0>> ELSE <<"Ok", 0>>

\* the peer writes the next byte; a task registered with the read is woken
rs_deliver ==
    /\ rs_sent < rs_total
    /\ rs_sent' = rs_sent + 1
    /\ rs_woken' = (rs_woken \/ rs_registered)
    /\ rs_registered' = FALSE
    /\ UNCHANGED <<notReader, rs_fixed, rs_strlen, rs_exact, rs_have, rs_want, rs_result>>

\* ReadStruct::poll: read_exact fills the window and registers the task when
\* the stream has no more bytes; a full window is parsed; on NeedMoreData(add)
\* a new read_exact is stored and NotReady returned
ReadStruct_poll ==
    /\ rs_woken
    /\ rs_result = "pending"
    /\ rs_woken' = FALSE
    /\ LET got == IF rs_sent < rs_want THEN rs_sent ELSE rs_want IN
       /\ rs_have' = got
       /\ IF got < rs_want
            THEN /\ rs_registered' = TRUE
                 /\ UNCHANGED <<rs_want, rs_result>>
            ELSE LET r == parse(got) IN
                 IF r[1] # "NeedMoreData"
                   THEN /\ rs_result' = r[1]
                        /\ UNCHANGED <<rs_want, rs_registered>>
                   ELSE /\ rs_want' = rs_want + r[2]
                        /\ UNCHANGED <<rs_result, rs_registered>>
    /\ UNCHANGED <<notReader, rs_fixed, rs_strlen, rs_exact, rs_sent>>

\* something else notifies the task (it shares it with another future)
rs_other_wakeup ==
    /\ rs_result = "pending"
    /\ ~rs_woken
    /\ rs_woken' = TRUE
    /\ UNCHANGED <<notReader, rs_fixed, rs_strlen, rs_exact, rs_sent, rs_have, rs_want,
                   rs_registered, rs_result>>

\* read_struct(stream): the task that made it is running
InitReader ==
    /\ rs_fixed \in 0..MaxFieldLen
    /\ rs_strlen \in 0..MaxFieldLen
    /\ rs_exact \in BOOLEAN
    /\ rs_exact => (rs_strlen = 0 /\ rs_fixed > 0)
    /\ rs_sent = 0
    /\ rs_have = 0
    /\ rs_want = deserialize_size_hint
    /\ rs_woken = TRUE
    /\ rs_registered = FALSE
    /\ rs_result = "pending"
    /\ OthersIdle("SpecReader")

NextReader ==
    \/ rs_deliver
    \/ ReadStruct_poll
    \/ rs_other_wakeup

\* a woken task is polled
SpecReader == InitReader /\ [][NextReader]_vars /\ WF_vars(ReadStruct_poll)

----------------------------------------------------------------------------
(* The zero-terminated strings of mdns_ipc_core                            *)
(* (src/mdns_ipc_core/src/strings.rs).  A cursor is the input and the      *)
(* position of its next byte, counted from 1.  codec_last is the last      *)
(* round trip: <<type, string, bytes after it, result, string read,        *)
(* bytes consumed>>.                                                       *)

StringTypes == {"Latin1String", "Latin1Str", "Utf8String", "Utf8Str"}

\* the strings written: bytes of ASCII and of a two-byte UTF-8 sequence
CodecChunks == {<<97>>, <<98>>, <<195, 169>>}

RECURSIVE CodecStringsOf(_)
CodecStringsOf(n) ==
    IF n = 0 THEN {<<>>}
    ELSE CodecStringsOf(n - 1)
           \cup {s \o c : s \in CodecStringsOf(n - 1), c \in CodecChunks}

CodecStrings == CodecStringsOf(MaxChunks)

\* what follows the string in the input
CodecRests == {<<>>, <<0>>, <<98, 0>>, <<98>>}

\* std::str::from_utf8(data).is_ok(), for sequences of one and two bytes
RECURSIVE from_utf8_ok(_)
from_utf8_ok(data) ==
    IF data = <<>> THEN TRUE
    ELSE IF data[1] < 128 THEN from_utf8_ok(Tail(data))
    ELSE IF data[1] \in 194..223 /\ Len(data) >= 2 /\ data[2] \in 128..191
           THEN from_utf8_ok(Tail(Tail(data)))
    ELSE FALSE

\* extract_zero_terminated: <<result, the bytes before the zero, position after it>>
extract_zero_terminated(src, pos) ==
    IF \E i \in pos..Len(src) : src[i] = 0
      THEN LET ndx == CHOOSE i \in pos..Len(src) :
                         src[i] = 0 /\ \A j \in pos..(i - 1) : src[j] # 0
           IN  <<"Ok", SubSeq(src, pos, ndx - 1), ndx + 1>>
      ELSE <<"NeedMoreData", <<>>, pos>>

\* write_zero_terminated: <<result, dest afterwards>>
write_zero_terminated(dest, data) ==
    IF \E i \in 1..Len(data) : data[i] = 0
      THEN <<"StringContainsNull", dest>>
      ELSE <<"Ok", dest \o data \o <<0>>>>

\* Serialize::serialized_size of the four types
serialized_size(data) == Len(data) + 1

\* Utf8String::deserialize
Utf8String_deserialize(src, pos) ==
    LET e == extract_zero_terminated(src, pos) IN
    IF e[1] # "Ok" THEN e
    ELSE IF ~from_utf8_ok(e[2]) THEN <<"InvalidData", <<>>, e[3]>>
    ELSE e

\* Deserialize::deserialize of the four types
deserialize(type, src, pos) ==
    CASE type \in {"Latin1String", "Latin1Str"} -> extract_zero_terminated(src, pos)
      [] type = "Utf8String" -> Utf8String_deserialize(src, pos)
      [] type = "Utf8Str" ->
            LET e == extract_zero_terminated(src, pos) IN
            IF e[1] # "Ok" THEN e
            ELSE IF ~from_utf8_ok(e[2]) THEN <<"InvalidData", <<>>, e[3]>>
            ELSE Utf8String_deserialize(src, e[3])

\* serialize a string into an empty buffer, append what follows, deserialize
codec_round_trip ==
    \E type \in StringTypes : \E s \in CodecStrings : \E rest \in CodecRests :
       LET w == write_zero_terminated(<<>>, s)
           d == deserialize(type, w[2] \o rest, 1)
       IN  /\ w[1] = "Ok"
           /\ codec_last' = <<type, s, rest, d[1], d[2], d[3] - 1>>
           /\ UNCHANGED notCodec

InitCodec ==
    /\ codec_last = <<"none", <<>>, <<>>, "none", <<>>, 0>>
    /\ OthersIdle("SpecCodec")

NextCodec == codec_round_trip

SpecCodec == InitCodec /\ [][NextCodec]_vars

----------------------------------------------------------------------------
(* Claims about the shared handle.                                         *)

ProcessCallers == {x[1] : x \in {y \in ffi : y[2] = "ProcessResult"}}

\* the C library was given the pointer of context c
PointerGiven(c) == IF c = 0 THEN kind = "register" ELSE origin[c] = "register"

\* C1: DNSServiceRefDeallocate is called at most once, it has been called
\* exactly when no holder of the handle is left, and no FFI call is started
\* or running on the handle afterwards.
C1_DeallocatedOnceByLastHolder ==
    /\ deallocs <= 1
    /\ (deallocs = 1) <=> (holders = {})
    /\ ~ffiAfterFree
    /\ ffi # {} => sd_ref = "live"

C1_Witness ==
    /\ deallocs = 1
    /\ bg_pc = "dropped"
    /\ \E r \in Rec : rec[r] = "gone" /\ removes[r] = 1

\* C2: as long as the native handle that was given a context's pointer is
\* not deallocated, the context's box is allocated.
C2_BoxOutlivesHandle ==
    \A c \in Ctx : (PointerGiven(c) /\ sd_ref = "live") => box[c] = "alloc"

\* C3: no register-record callback runs with a freed callback context.
C3_NoRecordCallbackOnFreedContext == uaf \cap Rec = {}

\* C4: at most one caller is inside DNSServiceProcessResult, and on the
\* shared handle it is the background task: no poll of a dependent future
\* calls it.
C4_SingleDriver ==
    /\ ProcessCallers \subseteq {BG}
    /\ Cardinality({y \in ffi : y[2] = "ProcessResult"}) <= 1

C4_Witness ==
    /\ <<BG, "ProcessResult">> \in ffi
    /\ \E r \in Rec : fut[r] = "done" /\ rec[r] = "live"
    /\ \E r \in Rec : fut[r] = "pending"

\* C5: no two FFI calls on the shared handle execute at the same time, and
\* each executes while its caller holds the mutex.
C5_FfiUnderMutex ==
    /\ Cardinality(ffi) <= 1
    /\ \A x \in ffi : mutex = x[1]

C5_Witness ==
    /\ \E r \in Rec : <<User(r), "RemoveRecord">> \in ffi
    /\ \E r \in Rec : rec[r] = "dropping" /\ raw[r] = "ref"
    /\ bg_pc = "idle" /\ is_readable /\ ~bg_abort

\* C6: DNSServiceRemoveRecord is issued exactly once for a dropped record
\* of add_record or register_record, never for a kept record and never for
\* a default-TXT-record handle.
C6_RemoveOnceUnlessKept ==
    \A r \in Rec :
        /\ removes[r] <= 1
        /\ kept[r] => removes[r] = 0
        /\ origin[r] = "txt" => removes[r] = 0
        /\ (rec[r] = "gone" /\ ~kept[r] /\ origin[r] \in {"add", "register"})
              => removes[r] = 1

C6_Witness ==
    /\ \E r \in Rec : rec[r] = "gone" /\ ~kept[r] /\ removes[r] = 1
    /\ \E r \in Rec : rec[r] = "gone" /\ kept[r] /\ origin[r] # "txt"

\* C7: while a record that was neither dropped nor kept exists the handle
\* is not deallocated, and when the handle is deallocated every such record
\* has had its DNSServiceRemoveRecord.
C7_RecordInsideHandle ==
    /\ \A r \in Rec :
          (rec[r] \in {"inFuture", "live", "dropping", "removing"} /\ ~kept[r])
             => sd_ref = "live"
    /\ deallocs > 0 =>
          \A r \in Rec : (origin[r] \in {"add", "register"} /\ ~kept[r])
                            => (rec[r] = "gone" /\ removes[r] = 1)

C7_Witness ==
    /\ owner = "dropped"
    /\ \A c \in Ctx : fut[c] \in {"none", "done"}
    /\ \E r \in Rec : rec[r] = "live" /\ origin[r] = "register" /\ sd_ref = "live"

----------------------------------------------------------------------------
(* Claims about a stream.                                                  *)

\* C8: within one stream the results the callbacks produced are returned by
\* successive polls in the order the callbacks fired, which is the order of
\* the replies on the socket: what the polls returned from callbacks,
\* followed by what waits in the channel, is exactly the sequence of callback
\* invocations; nothing is lost, duplicated or reordered.  The one thing a
\* poll returns that no callback produced is the error of a failed
\* process_result.
C8_CallbackResultsInOrder ==
    /\ Untagged(SelectSeq(s_returned, FromCallback)) \o s_queue = s_fired
    /\ [i \in 1..Len(s_fired) |-> s_fired[i][2]] \o [i \in 1..Len(s_sock) |-> s_sock[i][2]]
          = [i \in 1..s_sent |-> i]
    /\ \A i \in 1..Len(s_returned) :
          ~FromCallback(s_returned[i]) => s_returned[i] = <<"process_result", "Err", 0>>

C8_Witness ==
    /\ Len(SelectSeq(s_returned, FromCallback)) >= 2
    /\ \E i \in 1..Len(s_returned) : ~FromCallback(s_returned[i])
    /\ s_queue # <<>>

\* C8 as stated: everything the polls returned is, in order, what the
\* callbacks produced.
C8_ReturnedIsFired ==
    Untagged(s_returned) \o s_queue = s_fired

\* C9: once a poll has returned an error, every later poll returns
\* end-of-stream.
C9_ErrorThenEndOfStream ==
    s_afterErr \subseteq {"end"}

----------------------------------------------------------------------------
(* Claims about the construction functions.                                *)

NulInArgument == \E i \in 1..Len(sub_strs) : sub_strs[i] # <<>> /\ \E j \in 1..Len(sub_strs[i][1]) : sub_strs[i][1][j] = 0

NoBackgroundState ==
    /\ sub_handle # "live"
    /\ sub_box # "alloc"
    /\ ~sub_readiness
    /\ ~sub_bg

----------------------------------------------------------------------------
(* Claims about a single-shot future.                                      *)

\* C11: over the whole life of the native handle register_callback runs at
\* most once, so the sender slot is taken at most once and the expect of
\* run_callback never fails.
C11_CallbackRunsOnce ==
    sf_runs <= 1 /\ ~sf_panicked

\* C12: after the future has returned its first result (a value or an
\* error), every later poll returns pending.
C12_PendingAfterReady ==
    sf_after \subseteq {"pending"}

----------------------------------------------------------------------------
(* Claims about the failure and the end of the background driver.          *)

\* C13: a failure of process_result in the background driver is latched:
\* the driver has stopped exactly when bg_failed is set, bg_failed is never
\* cleared, the stopped driver makes no further call of process_result, the
\* buffered error exists only with the flag, and from then on poll_service
\* fails on every clone.
C13_FailureLatched ==
    /\ [](/\ bg_failed <=> bg_pc = "finished"
          /\ bg_error_buf => bg_failed
          /\ bg_failed => (PollServiceFails /\ <<BG, "ProcessResult">> \notin ffi))
    /\ [][bg_failed => bg_failed' /\ bg_pc' = "finished"]_vars

C13_Witness ==
    /\ bg_failed /\ bg_pc = "finished"
    /\ ~bg_error_buf
    /\ \E r \in Rec : fut[r] = "pending"

\* C15: the background driver is aborted exactly when no clone of the
\* shared service is left, whoever held the last one (the Registration or
\* Connection, a pending future, a Record); while a clone exists it is not
\* aborted, and it is dropped by the runtime only after the abort.
C15_AbortedWithLastClone ==
    /\ bg_abort <=> (holders \ {BG}) = {}
    /\ bg_pc = "dropped" => bg_abort

C15_Witness ==
    /\ bg_abort /\ bg_pc = "dropped"
    /\ owner = "dropped"
    /\ \E r \in Rec : rec[r] = "gone" /\ removes[r] = 1

----------------------------------------------------------------------------
(* Claims about the failure notifier.                                      *)

\* C14: a task that got pending from a future depending on the shared
\* handle is, once the background driver has failed, eventually woken, and
\* its next poll returns the error: the failure cannot be latched between the
\* task's check of the failure and its registration with the notifier, so
\* after the failure every waiting task has its wakeup pending.
C14_NoLostWakeup ==
    /\ [](\A o \in Obs : (n_failed /\ n_pc[o] = "waiting") => o \in n_woken)
    /\ \A o \in Obs : (n_failed /\ n_pc[o] = "waiting") ~> (n_pc[o] = "error")

C14_Witness ==
    /\ n_failed
    /\ \E o \in Obs : n_pc[o] = "waiting" /\ o \in n_woken
    /\ \E o \in Obs : n_pc[o] = "error"

----------------------------------------------------------------------------
(* Claims about TimeoutStream.                                             *)

\* C16: once a poll has ended the stream because the timer expired, no
\* later poll returns an item.
C16_NoItemAfterTimeout ==
    ~t_itemAfterEnd

\* C17: the timer runs for the full duration d from the last emitted item
\* or, before the first item, from the first poll that found the inner
\* stream not ready: the stream is ended by the timeout only by a poll that
\* finds the inner stream not ready d or more after that moment, and every
\* such poll ends it; an item the inner stream has ready is forwarded
\* whenever the timer can be created, and replaced by a TimeoutError when it
\* cannot.
C17_TimerRestartedAtEachItem ==
    /\ ~t_earlyEnd
    /\ ~t_missedEnd
    /\ t_timer # <<>> /\ t_base # <<>> => t_timer[1] = t_base[1] + t_d
    /\ \A i \in 1..Len(t_out) :
          t_out[i][1] = "item" =>
             IF t_out[i][5] THEN t_out[i][3] = "Item" /\ t_out[i][4] = t_out[i][2]
                            ELSE t_out[i][3] = "TimeoutError"

C17_Witness ==
    /\ t_timedOut
    /\ \E i \in 1..Len(t_out) : t_out[i][3] = "Item"
    /\ \E i \in 1..Len(t_out) : t_out[i][3] = "TimeoutError"
    /\ t_base # <<>> /\ t_base[1] > 0

\* C17 as stated: a stream whose gaps between consecutive items are all
\* shorter than d is never ended by the timeout and has all its items
\* forwarded.
C17_ShortGapsNeverEnded ==
    /\ ~t_cutShort
    /\ \A i \in 1..Len(t_out) : t_out[i][1] = "item" => t_out[i][3] = "Item"

\* C18: every error of the inner stream is returned as StreamError of that
\* error, at its position among the results of the inner stream: it is not
\* swallowed, not turned into end-of-stream, not replaced by a TimeoutError.
C18_InnerErrorsPassThrough ==
    \A i \in 1..Len(t_out) :
       /\ t_out[i][2] = i
       /\ t_out[i][1] = "err" => (t_out[i][3] = "StreamError" /\ t_out[i][4] = t_out[i][2])

C18_Witness ==
    /\ Len(t_out) >= 2
    /\ t_out[2][1] = "err"
    /\ ~t_out[2][5]
    /\ t_timedOut

----------------------------------------------------------------------------
(* Claims about the readiness adapters.                                    *)

\* C19: no missed wakeup: when the fd is readable while the task waits, a
\* later poll_read_ready returns ready, unless the adapter is dropped first.
C19_NoMissedWakeup ==
    (w_data > 0 /\ w_pc = "idle") ~> (w_pc \in {"drain", "dropped"})

\* C20: every call whose readiness mechanism failed returned an error; a
\* failed poll() probe is not reported as "not readable".
C20_MechanismErrorsPropagate ==
    \A i \in 1..Len(u_log) : u_log[i][3] # "" => u_log[i][4] = "Err"

----------------------------------------------------------------------------
(* Claims about the RDATA length.                                          *)

\* C21: an operation called with RDATA longer than 65535 bytes returns an
\* InvalidInput error: it does not panic and makes no FFI call.
C21_LongRdataIsInvalidInput ==
    \A i \in 1..Len(r_log) : r_log[i][2] > 65535 => r_log[i][3] = "InvalidInput"

----------------------------------------------------------------------------
(* Claims about TxtRecord.                                                 *)

\* a key of printable ASCII without '='
ValidKey(key) == \A i \in 1..Len(key) : key[i] \in 32..126 /\ key[i] # EQ

\* C22: set(k, v) on a new record with a valid key and len(k)+len(v)+1 <=
\* 255 succeeds; then get(k) is Some(Some(v)) and the wire form parses to a
\* record whose first pair is (k, Some(v)).
C22_TxtRoundTrip ==
    (/\ x_last[1] = "set" /\ x_last[4] = <<>> /\ x_last[3] # <<>>
     /\ ValidKey(x_last[2]) /\ Len(x_last[2]) + Len(x_last[3][1]) + 1 <= 255)
    => /\ x_last[5] = "Ok"
       /\ get(x_data, x_last[2]) = <<x_last[3]>>
       /\ parse_vec(rdata(x_data)) # <<>>
       /\ Head(TxtRecordIter(parse_vec(rdata(x_data))[1])) = <<x_last[2], x_last[3]>>

C22_Witness ==
    /\ x_last[1] = "set" /\ x_last[4] = <<>> /\ x_last[5] = "Ok"
    /\ x_last[2] = <<97>>
    /\ x_last[3] # <<>> /\ Len(x_last[3][1]) = 253
    /\ Len(x_data) = 256

\* the entries but those with this key, in their order
OtherEntries(es, key) == SelectSeq(es, LAMBDA e : e[1] # key)

\* C23: a record made by set, remove and clear holds each key once; a set of
\* a key the record holds leaves the other entries in their order and puts
\* the entry with the new value last.
C23_SetReplacesAndAppends ==
    LET es == TxtRecordIter(x_data) IN
    /\ \A i, j \in 1..Len(es) : es[i][1] = es[j][1] => i = j
    /\ (x_last[1] = "set" /\ x_last[5] = "Ok" /\ get(x_last[4], x_last[2]) # <<>>)
       => /\ es = OtherEntries(TxtRecordIter(x_last[4]), x_last[2]) \o <<<<x_last[2], x_last[3]>>>>
          /\ Len(es) = Len(TxtRecordIter(x_last[4]))

C23_Witness ==
    /\ x_last[1] = "set" /\ x_last[5] = "Ok"
    /\ Len(TxtRecordIter(x_last[4])) = 3
    /\ TxtRecordIter(x_last[4])[2][1] = x_last[2]
    /\ TxtRecordIter(x_last[4])[2][2] # x_last[3]
    /\ Len(TxtRecordIter(x_data)) = 3

\* C24: a record without entries has data() empty and rdata() the single
\* byte 0x00, and parsing the single byte 0x00 gives a record without
\* entries.
C24_EmptyRecord ==
    /\ x_data = <<>> => data_of(x_data) = <<>> /\ rdata(x_data) = <<0>>
    /\ (x_last[1] = "parse" /\ x_last[2] = <<0>>)
       => x_last[3] # <<>> /\ x_last[3][1] = <<>> /\ TxtRecordIter(x_last[3][1]) = <<>>

C24_Witness ==
    /\ x_data = <<>>
    /\ x_last[1] = "parse" /\ x_last[2] = <<0>>

\* C25: the wire form of every record made by set, remove and clear parses
\* to a record with the same entries.
C25_ParseReversesRdata ==
    /\ parse_vec(rdata(x_data)) # <<>>
    /\ TxtRecordIter(parse_vec(rdata(x_data))[1]) = TxtRecordIter(x_data)

----------------------------------------------------------------------------
(* Claims about the code points.                                           *)

\* C26: from_raw(x).into_raw() is x, with 0 decoded as Any, all-ones as
\* LocalOnly, ~1 as Unicast, ~2 as PeerToPeer and every other value as
\* Index(x); the constants for Any and LocalOnly encode to 0 and all-ones
\* (-1 as i32).
C26_InterfaceRoundTrip ==
    \A i \in 1..Len(i_log) :
       LET e == i_log[i] IN
       CASE e[1] = "Interface::from_raw" ->
               /\ e[4] = e[2]
               /\ e[3] = (CASE e[2] = 0 -> <<"Any", 0>>
                            [] e[2] = -1 -> <<"LocalOnly", 0>>
                            [] e[2] = -2 -> <<"Unicast", 0>>
                            [] e[2] = -3 -> <<"PeerToPeer", 0>>
                            [] OTHER -> <<"Index", e[2]>>)
         [] e[1] = "InterfaceIndex::from_raw" -> e[4] = e[2]
         [] e[1] = "INTERFACE_ANY" -> e[4] = 0
         [] e[1] = "INTERFACE_LOCAL_ONLY" -> e[4] = -1

\* C27: the set of one flag F converts to the value V of F, and V converts
\* back to a set that holds F and no other flag; a word converts to the set
\* of the flags whose bit it has, whatever other bits it has.
C27_FlagMapping ==
    \A i \in 1..Len(f_log) :
       LET e == f_log[i] IN
       /\ e[1] = "into" =>
             /\ e[3] = (CASE e[2] = "MoreComing" -> 1 [] e[2] = "Add" -> 2 [] e[2] = "Default" -> 4)
             /\ \A c \in {"MoreComing", "Add", "Default"} : flagset_has(e[4], c) <=> c = e[2]
       /\ e[1] = "from" =>
             /\ flagset_has(e[4], "MoreComing") <=> Bit(e[3], 0)
             /\ flagset_has(e[4], "Add") <=> Bit(e[3], 1)
             /\ flagset_has(e[4], "Default") <=> Bit(e[3], 2)
             /\ e[4] < 8
             /\ flagset_into(e[4], 1) = e[3] % 8

C27_Witness ==
    /\ Len(f_log) = 2
    /\ f_log[1][1] = "into" /\ f_log[1][2] = "Default"
    /\ f_log[2][1] = "from" /\ f_log[2][3] = 26

\* C28: Error::from returns Ok for the code 0 and for no other code, and
\* it returns UnknownError only while Firewall, NATTraversal, DoubleNAT and
\* Timeout are each the named variant of some other code.
C28_ErrorFromAsListed ==
    /\ \A i \in 1..Len(e_log) : e_log[i][2] = "Ok" <=> e_log[i][1] = 0
    /\ \A i \in 1..Len(e_log) : e_log[i][2] = "UnknownError" =>
          \A name \in {"Firewall", "NATTraversal", "DoubleNAT", "Timeout"} :
             \E value \in ErrorCodes : Error_from_value(value) = <<"KnownError", name, 0>>

----------------------------------------------------------------------------
(* Claims about host address resolution.                                   *)

\* an answer of class IN and of the type of its query, with 4 bytes for A
\* and 16 bytes for AAAA
GoodAnswer(query, a) ==
    /\ a[1] = 1
    /\ a[2] = query
    /\ a[3] = (IF query = 1 THEN 4 ELSE 16)

\* C29: the merged stream returns an answer exactly if it is of class IN,
\* of the type of its query and 4 (A) or 16 (AAAA) bytes long, with the
\* index of the answer's interface as scope id; every other answer is
\* dropped, and a dropped answer makes the stream return nothing: what it
\* returned and what it dropped are together the answers it polled.
C29_OnlyGoodAnswersForwarded ==
    /\ \A i \in 1..Len(h_out) :
          h_out[i][1] = "item" =>
             /\ GoodAnswer(h_out[i][2], h_out[i][3])
             /\ h_out[i][4] = (IF h_out[i][3][4] \in {0, -1, -2, -3} THEN 0 ELSE h_out[i][3][4])
    /\ \A i \in 1..Len(h_dropped) : ~GoodAnswer(h_dropped[i][1], h_dropped[i][2])
    /\ Len(h_out) + Len(h_dropped) + Len(h_v6) + Len(h_v4) = h_answers

C29_Witness ==
    /\ Len(h_out) = 1
    /\ h_out[1][1] = "item" /\ h_out[1][2] = 28 /\ h_out[1][4] = 2
    /\ Len(h_dropped) = 1
    /\ h_dropped[1][1] = 1 /\ h_dropped[1][2][2] = 1 /\ h_dropped[1][2][3] = 16

----------------------------------------------------------------------------
(* Claims about driving the handle.                                        *)

\* C31: a call that observes readiness invokes the closure while the
\* readability probe reports true and clears readiness only once the probe
\* reports false; without readiness the closure is not called; an error of
\* the closure ends the call at once with readiness not cleared.
C31_DrainThenClear ==
    \A i \in 1..Len(p_log) :
        LET e == p_log[i] IN
        /\ ~e[2] => (e[3] = 0 /\ ~e[4])
        /\ e[4] => e[5] = 0
        /\ (e[2] /\ e[6] = "Ok") => e[4]
        /\ e[6] = "ClosureErr" => ~e[4]

\* the part of C31 that is about ReadProcessor::process alone
C31_ProcessDrainsThenClears ==
    \A i \in 1..Len(p_log) :
        LET e == p_log[i] IN
        e[1] = "process" =>
            /\ ~e[2] => (e[3] = 0 /\ ~e[4])
            /\ e[4] => e[5] = 0
            /\ (e[2] /\ e[6] = "Ok") => e[4]
            /\ e[6] = "ClosureErr" => ~e[4]

\* C32: whenever the mutex of the Windows adapter is not held,
\* pending_request is true exactly when the select thread has been sent or
\* is running a Poll request it has not answered, or a response is queued
\* unread on the response channel.
C32_PendingIffOutstanding ==
    w_pc \in {"idle", "drain", "clear"} =>
        (w_pending <=> \/ \E i \in 1..Len(w_req) : w_req[i] = "Poll"
                       \/ w_thread = "selecting"
                       \/ w_resp > 0)

\* C33: no assertion of the Windows adapter fails: the thread is never
\* sent a Poll while it is polling, at most one response is unread (so
\* try_send never finds the channel full), pending_request is true when
\* clear_read_ready finds a response, and no second response follows one
\* that was just consumed.
C33_NoAssertionFails ==
    /\ ~w_panicked
    /\ w_resp <= 1
    /\ Len(w_req) <= 1
    /\ w_thread = "selecting" => \A i \in 1..Len(w_req) : w_req[i] # "Poll"
    /\ w_resp > 0 => w_pending

\* clear_read_ready has sent the response itself, and the task was woken by it
C33_Witness ==
    /\ w_pc = "idle" /\ w_resp = 1 /\ w_pending /\ w_woken
    /\ w_thread = "waiting" /\ w_req = <<>> /\ w_data > 0
    /\ ~w_panicked

\* C34: after the Windows PollReadFd is dropped its select thread
\* eventually terminates, whatever it was doing, and a request in the
\* channel is eventually taken, so the send of Close does not block forever.
C34_ThreadTerminatesAfterDrop ==
    /\ (w_pc = "dropped") ~> (w_thread = "exited")
    /\ (w_req # <<>>) ~> (w_req = <<>>)

\* dropped while the thread was inside its select loop with nothing to read
C34_Witness ==
    /\ w_pc = "dropped" /\ w_thread = "exited"
    /\ w_pending /\ w_resp = 0 /\ w_arrivals = 0 /\ w_req = <<>>

\* C35: the callback context (and with it the receiver) of a future is
\* freed only after the native handle has been deallocated, at whatever
\* point the future is dropped.
C35_HandleDeallocatedFirst ==
    sf_box = "freed" => sf_handle = "freed"

----------------------------------------------------------------------------
(* Claims about the borrowed socket.                                       *)

\* C36: the readiness adapter never polls, selects on, registers or
\* deregisters the fd after the native handle that owns the socket has been
\* deallocated: the readiness source is detached before the handle is freed.
C36_NoFdUseAfterDeallocate ==
    /\ fd_late = {}
    /\ fd_handle = "freed" => (~fd_reg /\ fd_thread # "selecting")

\* C37: set returns InvalidKey exactly when the key holds '=' or a byte
\* outside 0x20..0x7E, and otherwise EntryTooLong exactly when the length
\* of the key, plus the length of the value and one when a value is given,
\* exceeds 255; in both cases the bytes of the record are unchanged.
C37_SetErrors ==
    x_last[1] = "set" =>
        LET key == x_last[2]
            value == x_last[3]
            entry_len == Len(key) + (IF value = <<>> THEN 0 ELSE Len(value[1]) + 1)
        IN  /\ x_last[5] = "InvalidKey" <=> ~ValidKey(key)
            /\ ValidKey(key) => (x_last[5] = "EntryTooLong" <=> entry_len > 255)
            /\ x_last[5] \in {"Ok", "InvalidKey", "EntryTooLong"}
            /\ x_last[5] # "Ok" => x_data = x_last[4]

\* a value too long for a key the record holds: the old entry stays
C37_Witness ==
    /\ x_last[1] = "set" /\ x_last[5] = "EntryTooLong"
    /\ x_last[2] = <<97>> /\ Len(x_last[3][1]) = 254
    /\ get(x_data, <<97>>) = <<<<<<EQ>>>>>>

\* C38: after any sequence of set, set_value, set_no_value, remove and clear
\* from new() the buffer is a sequence of length-prefixed chunks, every
\* length byte followed by that many bytes, the chunks add up to the
\* buffer, and no two entries have the same key.
C38_WellFormedUniqueKeys ==
    /\ chunks_fit(x_data, 1)
    /\ \A i \in 1..Len(x_data) : x_data[i] \in 0..255
    /\ LET es == TxtRecordIter(x_data) IN
       /\ \A i \in 1..Len(es) : \A j \in (i + 1)..Len(es) : es[i][1] # es[j][1]
       /\ \A i \in 1..Len(es) : ValidKey(es[i][1])

\* an entry was removed from between two others
C38_Witness ==
    /\ x_last[1] = "remove"
    /\ Len(TxtRecordIter(x_last[4])) = 3
    /\ TxtRecordIter(x_last[4])[2][1] = x_last[2]
    /\ Len(TxtRecordIter(x_data)) = 2

----------------------------------------------------------------------------
(* Claims about mdns_ipc.                                                  *)

\* C39: read_struct completes once the stream has delivered the bytes of
\* one struct: it reads exactly the bytes parse asks for, and a task that
\* got not-ready is woken or is registered with the pending read.
C39_ReadStructCompletes ==
    /\ [](rs_result = "pending" => (rs_woken \/ rs_registered))
    /\ [](rs_want <= rs_total /\ rs_result # "ExpectedEndOfFile")
    /\ (rs_sent = rs_total) ~> (rs_result = "Ok")

\* what holds of C39: the window never exceeds the struct, and the result is
\* the parsed struct
C39_ReadsExactlyWhatIsNeeded ==
    /\ rs_want <= rs_total
    /\ rs_have <= rs_sent
    /\ rs_result \in {"pending", "Ok"}
    /\ rs_result = "Ok" => rs_have = rs_total

\* C40: for every NUL-free string s of each string type, deserializing
\* serialize(s) yields s and consumes exactly serialized_size(s) = len(s) + 1
\* bytes of the input, whatever follows.
C40_StringRoundTrip ==
    codec_last[1] # "none" =>
        /\ codec_last[4] = "Ok"
        /\ codec_last[5] = codec_last[2]
        /\ codec_last[6] = serialized_size(codec_last[2])
        /\ codec_last[6] = Len(codec_last[2]) + 1

\* what holds of C40: the round trip of the three other types
C40_RoundTripButUtf8Str ==
    (codec_last[1] \notin {"none", "Utf8Str"}) =>
        /\ codec_last[4] = "Ok"
        /\ codec_last[5] = codec_last[2]
        /\ codec_last[6] = serialized_size(codec_last[2])

============================================================================
